---- MODULE Spec2Model ----
(***************************************************************************)
(* A model of the strikeout projection engine: models.project_strikeouts, *)
(* the modifier library, the trend/form estimator, the outcome simulator  *)
(* and the batch loop of StrikeoutOrchestrator.run.                       *)
(*                                                                         *)
(* Numbers are fixed-point integers with four decimals (One = 1.0); the   *)
(* float nan is the sentinel NaN, which every arithmetic operator         *)
(* propagates and every comparison rejects, as IEEE floats do.  Python    *)
(* strings are sequences of one-character strings, so that strip, lower,  *)
(* upper, the substring test and difflib's similarity ratio are computed  *)
(* and not assumed.  A Python exception is a record [exc |-> type].       *)
(***************************************************************************)
EXTENDS Integers, Sequences, FiniteSets, TLC

VARIABLES query, result, run, sim, call

vars == <<query, result, run, sim, call>>

\* ------------------------------------------------------------------------
\* Bounds of the model
\* ------------------------------------------------------------------------
MaxLogs == 5
MaxLineup == 2
MaxRows == 2
MaxProps == 3
MaxN == 2
MaxQueries == 2

\* ------------------------------------------------------------------------
\* Fixed-point numbers and nan
\* ------------------------------------------------------------------------
\* a Python list built by a comprehension: the explicit sequence of its items
List(f) == f \o <<>>

One == 100 * 100
NaN == 0 - 999999999
Absent == 0 - 888888888

IsNaN(x) == x = NaN

Fx(units, hundredths) == units * One + hundredths * 100

Add(a, b) == IF IsNaN(a) \/ IsNaN(b) THEN NaN ELSE a + b
Sub(a, b) == IF IsNaN(a) \/ IsNaN(b) THEN NaN ELSE a - b
\* (a * b) \div One, computed without leaving 32 bits
Mul(a, b) ==
    IF IsNaN(a) \/ IsNaN(b) THEN NaN
    ELSE (a \div One) * b + ((a % One) * b) \div One
Div(a, b) == IF IsNaN(a) \/ IsNaN(b) THEN NaN ELSE (a * One) \div b

\* Python's a > b, a <= b ... on floats: every comparison with nan is False.
Gt(a, b) == ~IsNaN(a) /\ ~IsNaN(b) /\ a > b
Le(a, b) == ~IsNaN(a) /\ ~IsNaN(b) /\ a <= b

\* np.clip(x, lo, hi) == minimum(maximum(x, lo), hi); nan stays nan.
np_clip(x, lo, hi) ==
    IF IsNaN(x) THEN NaN
    ELSE IF x < lo THEN lo
    ELSE IF x > hi THEN hi
    ELSE x

RECURSIVE SqrtSearch(_, _, _)
SqrtSearch(x, lo, hi) ==
    IF lo >= hi THEN lo
    ELSE LET mid == (lo + hi + 1) \div 2
         IN  IF mid * mid <= x THEN SqrtSearch(x, mid, hi)
             ELSE SqrtSearch(x, lo, mid - 1)

\* floor of the square root of a non-negative integer
ISqrt(x) == SqrtSearch(x, 0, 46340)

RECURSIVE SumSeq(_)
SumSeq(s) == IF s = <<>> THEN 0 ELSE Head(s) + SumSeq(Tail(s))

\* ------------------------------------------------------------------------
\* Python strings: str.lower, str.upper, str.strip, `in`, difflib
\* ------------------------------------------------------------------------
UpperCase == <<"A", "B", "C", "D", "E", "F", "G", "H", "I", "J", "K", "L", "M", "N", "O", "P", "Q", "R", "S", "T", "U", "V", "W", "X", "Y", "Z">>
LowerCase == <<"a", "b", "c", "d", "e", "f", "g", "h", "i", "j", "k", "l", "m", "n", "o", "p", "q", "r", "s", "t", "u", "v", "w", "x", "y", "z">>

LowerOf ==
    [c \in {UpperCase[i] : i \in DOMAIN UpperCase} |->
        LowerCase[CHOOSE i \in DOMAIN UpperCase : UpperCase[i] = c]]

UpperOf ==
    [c \in {LowerCase[i] : i \in DOMAIN LowerCase} |->
        UpperCase[CHOOSE i \in DOMAIN LowerCase : LowerCase[i] = c]]

CharLower(c) == IF c \in DOMAIN LowerOf THEN LowerOf[c] ELSE c

CharUpper(c) == IF c \in DOMAIN UpperOf THEN UpperOf[c] ELSE c

lower(s) == List([i \in DOMAIN s |-> CharLower(s[i])])
upper(s) == List([i \in DOMAIN s |-> CharUpper(s[i])])

RECURSIVE lstrip(_)
lstrip(s) == IF s # <<>> /\ Head(s) = " " THEN lstrip(Tail(s)) ELSE s

RECURSIVE rstrip(_)
rstrip(s) ==
    IF s # <<>> /\ s[Len(s)] = " " THEN rstrip(SubSeq(s, 1, Len(s) - 1)) ELSE s

strip(s) == rstrip(lstrip(s))

\* Python's `sub in s` for strings
Contains(s, sub) ==
    \E i \in 0..(Len(s) - Len(sub)) :
        \A j \in 1..Len(sub) : s[i + j] = sub[j]

\* the order of the characters the model uses, as ord() orders them
CharOrder == <<" ", "!", "#", "$", "%", "&", "(", ")", "*", "+", ",", "-", ".", "/", "0", "1", "2", "3", "4", "5", "6", "7", "8", "9", ":", ";", "<", "=", ">", "?", "@", "A", "B", "C", "D", "E", "F", "G", "H", "I", "J", "K", "L", "M", "N", "O", "P", "Q", "R", "S", "T", "U", "V", "W", "X", "Y", "Z", "[", "]", "^", "_", "a", "b", "c", "d", "e", "f", "g", "h", "i", "j", "k", "l", "m", "n", "o", "p", "q", "r", "s", "t", "u", "v", "w", "x", "y", "z", "{", "|", "}", "~">>

OrdOf ==
    [c \in {CharOrder[i] : i \in DOMAIN CharOrder} |->
        CHOOSE i \in DOMAIN CharOrder : CharOrder[i] = c]

Ord(c) == OrdOf[c]

RECURSIVE StrLess(_, _)
StrLess(a, b) ==
    IF b = <<>> THEN FALSE
    ELSE IF a = <<>> THEN TRUE
    ELSE IF Head(a) = Head(b) THEN StrLess(Tail(a), Tail(b))
    ELSE Ord(Head(a)) < Ord(Head(b))

\* difflib.SequenceMatcher.find_longest_match(alo, ahi, blo, bhi) without junk:
\* the longest block a[i+1..i+k] = b[j+1..j+k]; of those the one starting
\* earliest in a, and of those the one starting earliest in b.
RECURSIVE MatchLen(_, _, _, _, _, _)
MatchLen(a, b, i, j, ahi, bhi) ==
    IF i < ahi /\ j < bhi /\ a[i + 1] = b[j + 1]
    THEN 1 + MatchLen(a, b, i + 1, j + 1, ahi, bhi)
    ELSE 0

find_longest_match(a, b, alo, ahi, blo, bhi) ==
    LET is == alo..(ahi - 1)
        js == blo..(bhi - 1)
        lens == {MatchLen(a, b, i, j, ahi, bhi) : i \in is, j \in js}
        size == CHOOSE k \in lens : \A k2 \in lens : k2 <= k
        besti == CHOOSE i \in is :
                    /\ \E j \in js : MatchLen(a, b, i, j, ahi, bhi) = size
                    /\ \A i2 \in alo..(i - 1) :
                          \A j \in js : MatchLen(a, b, i2, j, ahi, bhi) # size
        bestj == CHOOSE j \in js :
                    /\ MatchLen(a, b, besti, j, ahi, bhi) = size
                    /\ \A j2 \in blo..(j - 1) : MatchLen(a, b, besti, j2, ahi, bhi) # size
    IN  <<besti, bestj, size>>

\* the number of matched characters of get_matching_blocks over a[alo+1..ahi],
\* b[blo+1..bhi] (0-based half-open ranges as in difflib)
RECURSIVE MatchCount(_, _, _, _, _, _)
MatchCount(a, b, alo, ahi, blo, bhi) ==
    IF alo >= ahi \/ blo >= bhi THEN 0
    ELSE LET around(m) ==
                 IF m[3] = 0 THEN 0
                 ELSE m[3]
                      + MatchCount(a, b, alo, m[1], blo, m[2])
                      + MatchCount(a, b, m[1] + m[3], ahi, m[2] + m[3], bhi)
         IN  around(find_longest_match(a, b, alo, ahi, blo, bhi))

\* SequenceMatcher(None, a, b).ratio() in hundredths, rounded down
ratio(a, b) ==
    IF Len(a) + Len(b) = 0 THEN 100
    ELSE (200 * MatchCount(a, b, 0, Len(a), 0, Len(b))) \div (Len(a) + Len(b))

\* exact comparison of 2*M/T with the cutoff c/100
RatioAtLeast(a, b, c) ==
    IF Len(a) + Len(b) = 0 THEN TRUE
    ELSE 200 * MatchCount(a, b, 0, Len(a), 0, Len(b)) >= c * (Len(a) + Len(b))

\* ------------------------------------------------------------------------
\* constants.py
\* ------------------------------------------------------------------------
LEAGUE_AVG_TEAM_K_PCT == 1950
LEAGUE_AVG_K == 65000

PARK_FACTORS == <<
    [name |-> <<"A", "n", "g", "e", "l", " ", "S", "t", "a", "d", "i", "u", "m">>,
     mod |-> 9800],
    [name |-> <<"B", "u", "s", "c", "h", " ", "S", "t", "a", "d", "i", "u", "m">>,
     mod |-> 9700],
    [name |-> <<"C", "h", "a", "s", "e", " ", "F", "i", "e", "l", "d">>,
     mod |-> 10300],
    [name |-> <<"C", "i", "t", "i", "z", "e", "n", "s", " ", "B", "a", "n", "k", " ", "P", "a", "r", "k">>,
     mod |-> 10200],
    [name |-> <<"C", "i", "t", "i", " ", "F", "i", "e", "l", "d">>,
     mod |-> 10300],
    [name |-> <<"C", "o", "m", "e", "r", "i", "c", "a", " ", "P", "a", "r", "k">>,
     mod |-> 9500],
    [name |-> <<"C", "o", "o", "r", "s", " ", "F", "i", "e", "l", "d">>,
     mod |-> 9300],
    [name |-> <<"D", "o", "d", "g", "e", "r", " ", "S", "t", "a", "d", "i", "u", "m">>,
     mod |-> 10000],
    [name |-> <<"F", "e", "n", "w", "a", "y", " ", "P", "a", "r", "k">>,
     mod |-> 9600],
    [name |-> <<"G", "l", "o", "b", "e", " ", "L", "i", "f", "e", " ", "F", "i", "e", "l", "d">>,
     mod |-> 9800],
    [name |-> <<"G", "r", "e", "a", "t", " ", "A", "m", "e", "r", "i", "c", "a", "n", " ", "B", "a", "l", "l", " ", "P", "a", "r", "k">>,
     mod |-> 10700],
    [name |-> <<"G", "u", "a", "r", "a", "n", "t", "e", "e", "d", " ", "R", "a", "t", "e", " ", "F", "i", "e", "l", "d">>,
     mod |-> 10500],
    [name |-> <<"K", "a", "u", "f", "f", "m", "a", "n", " ", "S", "t", "a", "d", "i", "u", "m">>,
     mod |-> 9600],
    [name |-> <<"l", "o", "a", "n", "D", "e", "p", "o", "t", " ", "P", "a", "r", "k">>,
     mod |-> 9700],
    [name |-> <<"M", "i", "n", "u", "t", "e", " ", "M", "a", "i", "d", " ", "P", "a", "r", "k">>,
     mod |-> 10100],
    [name |-> <<"N", "a", "t", "i", "o", "n", "a", "l", "s", " ", "P", "a", "r", "k">>,
     mod |-> 10200],
    [name |-> <<"O", "a", "k", "l", "a", "n", "d", " ", "C", "o", "l", "i", "s", "e", "u", "m">>,
     mod |-> 9400],
    [name |-> <<"O", "r", "a", "c", "l", "e", " ", "P", "a", "r", "k">>,
     mod |-> 10300],
    [name |-> <<"P", "e", "t", "c", "o", " ", "P", "a", "r", "k">>,
     mod |-> 9700],
    [name |-> <<"P", "N", "C", " ", "P", "a", "r", "k">>,
     mod |-> 10000],
    [name |-> <<"P", "r", "o", "g", "r", "e", "s", "s", "i", "v", "e", " ", "F", "i", "e", "l", "d">>,
     mod |-> 9900],
    [name |-> <<"R", "o", "g", "e", "r", "s", " ", "C", "e", "n", "t", "r", "e">>,
     mod |-> 10000],
    [name |-> <<"T", "-", "M", "o", "b", "i", "l", "e", " ", "P", "a", "r", "k">>,
     mod |-> 9800],
    [name |-> <<"T", "a", "r", "g", "e", "t", " ", "F", "i", "e", "l", "d">>,
     mod |-> 10000],
    [name |-> <<"T", "r", "o", "p", "i", "c", "a", "n", "a", " ", "F", "i", "e", "l", "d">>,
     mod |-> 9800],
    [name |-> <<"T", "r", "u", "i", "s", "t", " ", "P", "a", "r", "k">>,
     mod |-> 10300],
    [name |-> <<"W", "r", "i", "g", "l", "e", "y", " ", "F", "i", "e", "l", "d">>,
     mod |-> 10100],
    [name |-> <<"Y", "a", "n", "k", "e", "e", " ", "S", "t", "a", "d", "i", "u", "m">>,
     mod |-> 10500],
    [name |-> <<"A", "m", "e", "r", "i", "c", "a", "n", " ", "F", "a", "m", "i", "l", "y", " ", "F", "i", "e", "l", "d">>,
     mod |-> 10200],
    [name |-> <<"O", "r", "i", "o", "l", "e", " ", "P", "a", "r", "k", " ", "a", "t", " ", "C", "a", "m", "d", "e", "n", " ", "Y", "a", "r", "d", "s">>,
     mod |-> 10100]>>

\* (the apostrophe of the second key is written as a hyphen)
CATCHER_FRAMING_DICT == <<
    [name |-> <<"J", "o", "n", "a", "h", " ", "H", "e", "i", "m">>,
     runs |-> 0],
    [name |-> <<"L", "o", "g", "a", "n", " ", "O", "-", "H", "o", "p", "p", "e">>,
     runs |-> 0 - 33],
    [name |-> <<"F", "r", "a", "n", "c", "i", "s", "c", "o", " ", "A", "l", "v", "a", "r", "e", "z">>,
     runs |-> 0 - 22],
    [name |-> <<"C", "o", "n", "n", "o", "r", " ", "W", "o", "n", "g">>,
     runs |-> 11],
    [name |-> <<"K", "o", "r", "e", "y", " ", "L", "e", "e">>,
     runs |-> 0],
    [name |-> <<"J", "o", "s", "e", " ", "T", "r", "e", "v", "i", "n", "o">>,
     runs |-> 0],
    [name |-> <<"H", "e", "n", "r", "y", " ", "D", "a", "v", "i", "s">>,
     runs |-> 0 - 11],
    [name |-> <<"S", "a", "l", "v", "a", "d", "o", "r", " ", "P", "e", "r", "e", "z">>,
     runs |-> 11],
    [name |-> <<"K", "e", "i", "b", "e", "r", "t", " ", "R", "u", "i", "z">>,
     runs |-> 0 - 44],
    [name |-> <<"S", "e", "a", "n", " ", "M", "u", "r", "p", "h", "y">>,
     runs |-> 0],
    [name |-> <<"K", "y", "l", "e", " ", "H", "i", "g", "a", "s", "h", "i", "o", "k", "a">>,
     runs |-> 11],
    [name |-> <<"C", "a", "l", " ", "R", "a", "l", "e", "i", "g", "h">>,
     runs |-> 22],
    [name |-> <<"P", "a", "t", "r", "i", "c", "k", " ", "B", "a", "i", "l", "e", "y">>,
     runs |-> 44],
    [name |-> <<"Y", "a", "i", "n", "e", "r", " ", "D", "i", "a", "z">>,
     runs |-> 0 - 22],
    [name |-> <<"G", "a", "b", "r", "i", "e", "l", " ", "M", "o", "r", "e", "n", "o">>,
     runs |-> 33]>>

\* PLATOON_MATCHUPS[(pitcher hand, batter hand)]; no entry: neutral
PLATOON_MATCHUPS(p, b) ==
    CASE p = "L" /\ b = "L" -> 9300
      [] p = "L" /\ b = "R" -> 10700
      [] p = "R" /\ b = "R" -> 9500
      [] p = "R" /\ b = "L" -> 10500
      [] OTHER -> One

\* ------------------------------------------------------------------------
\* Python dicts and pandas tables
\* ------------------------------------------------------------------------
\* A DataFrame is [columns |-> sequence of column names, rows |-> sequence of
\* rows], a row a sequence of cells in column order.  A row turned into a
\* dict (Series.to_dict) is [columns, cells].
HasCol(columns, name) == \E i \in DOMAIN columns : columns[i] = name
ColIndex(columns, name) == CHOOSE i \in DOMAIN columns : columns[i] = name

\* dict.get(key, default) / Series.get(key, default)
DictGet(d, key, default) ==
    IF HasCol(d.columns, key) THEN d.cells[ColIndex(d.columns, key)] ELSE default

\* the first name of possible_names that is a column, or None (<<>>)
get_column_name(df, possible_names) ==
    LET hits == {i \in DOMAIN possible_names : HasCol(df.columns, possible_names[i])}
    IN  IF hits = {} THEN <<>>
        ELSE possible_names[CHOOSE i \in hits : \A j \in hits : i <= j]

\* str.replace(ch, rep) for a one-character pattern
RECURSIVE Replace(_, _, _)
Replace(s, ch, rep) ==
    IF s = <<>> THEN <<>>
    ELSE IF Head(s) = ch THEN rep \o Replace(Tail(s), ch, rep)
    ELSE <<Head(s)>> \o Replace(Tail(s), ch, rep)

NormalizeColumn(c) ==
    strip(Replace(Replace(lower(c), "%", <<"p", "c", "t">>), "+",
                  <<"p", "l", "u", "s">>))

load_normalized_trend_df(file) ==
    [columns |-> List([i \in DOMAIN file.columns |-> NormalizeColumn(file.columns[i])]),
     rows |-> file.rows]

\* difflib.get_close_matches(word, possibilities, n, cutoff): the n best
\* possibilities whose ratio against word reaches the cutoff (in hundredths),
\* best first; equal scores are ordered by the strings, larger first.
RECURSIVE BestFirst(_, _, _)
BestFirst(word, cands, n) ==
    IF cands = {} \/ n = 0 THEN <<>>
    ELSE LET \* 2M(x)/(|x|+|w|) > 2M(y)/(|y|+|w|), or equal and x > y
             greater(x, y, mx, my) ==
                 LET lx == Len(x) + Len(word)
                     ly == Len(y) + Len(word)
                 IN  \/ mx * ly > my * lx
                     \/ mx * ly = my * lx /\ StrLess(y, x)
             better(x, y) ==
                 greater(x, y, MatchCount(x, word, 0, Len(x), 0, Len(word)),
                               MatchCount(y, word, 0, Len(y), 0, Len(word)))
             rest(top) == <<top>> \o BestFirst(word, cands \ {top}, n - 1)
         IN  rest(CHOOSE x \in cands : \A y \in cands \ {x} : better(x, y))

\* variant: get_close_matches that ignores the cutoff
get_close_matches_any(word, possibilities, n, cutoff) ==
    BestFirst(word, {possibilities[i] : i \in DOMAIN possibilities}, n)

get_close_matches(word, possibilities, n, cutoff) ==
    BestFirst(word,
              {possibilities[i] : i \in {j \in DOMAIN possibilities :
                                           RatioAtLeast(possibilities[j], word, cutoff)}},
              n)

\* ------------------------------------------------------------------------
\* stats_logic.py: the trend/form estimator
\* ------------------------------------------------------------------------
\* 1000 * exp(-0.25 * i) for i = 0, 1, 2, ...
ExpWeights == <<1000, 779, 607, 472, 368, 287, 223, 174, 135, 105, 82, 64>>

\* the default of the parameter alpha, in thousandths
DefaultAlpha == 250

\* the values of alpha the model calls calculate_ewma with, in thousandths
Alphas == {0 - 250, 0, DefaultAlpha, 1000}

\* np.exp(-alpha * i) for i = 0, 1, 2, ..., times 1000
NpExp(alpha) ==
    CASE alpha = DefaultAlpha -> ExpWeights
      [] alpha = 0 -> <<1000, 1000, 1000, 1000, 1000, 1000, 1000, 1000>>
      [] alpha = 1000 -> <<1000, 368, 135, 50, 18, 7, 2, 1>>
      [] alpha = 0 - 250 -> <<1000, 1284, 1649, 2117, 2718, 3490, 4482, 5755>>

\* variant: the weights without the reversal, the oldest value weighted most
EwmaWeights_oldest_first(n, alpha) == List([j \in 1..n |-> NpExp(alpha)[j]])

\* np.exp(-alpha * np.arange(n)[::-1]): the last value has the exponent 0
EwmaWeights(n, alpha) == List([j \in 1..n |-> NpExp(alpha)[(n - j) + 1]])

\* weights /= weights.sum(): the weight of value j is the fraction num[j] / den
Normalised(w) == [num |-> w, den |-> SumSeq(w)]

\* np.dot(weights, values)
NpDot(weights, values) ==
    SumSeq([j \in 1..Len(values) |-> weights.num[j] * values[j]]) \div weights.den

\* variant: the plain mean of the values
calculate_ewma_unweighted(values) ==
    IF values = <<>> THEN 5 * One ELSE SumSeq(values) \div Len(values)

\* variant: no default for the empty sequence, the empty dot product
calculate_ewma_alpha_no_default(values, alpha) ==
    IF values = <<>> THEN 0
    ELSE NpDot(Normalised(EwmaWeights(Len(values), alpha)), values)

\* calculate_ewma(values, alpha)
calculate_ewma_alpha(values, alpha) ==
    IF values = <<>> THEN 5 * One
    ELSE NpDot(Normalised(EwmaWeights(Len(values), alpha)), values)

\* calculate_ewma(values), alpha left at its default
calculate_ewma(values) == calculate_ewma_alpha(values, DefaultAlpha)

\* the column names the code looks up, as character sequences
COL ==
    [Team |-> <<"T", "e", "a", "m">>,
     team |-> <<"t", "e", "a", "m">>,
     Tm |-> <<"T", "m">>,
     tm |-> <<"t", "m">>,
     TEAM |-> <<"T", "E", "A", "M">>,
     Kpct |-> <<"K", "%">>,
     k_pct |-> <<"k", "_", "p", "c", "t">>,
     wRCplus |-> <<"w", "R", "C", "+">>,
     wrc_plus |-> <<"w", "r", "c", "_", "p", "l", "u", "s">>,
     Name |-> <<"N", "a", "m", "e">>,
     name |-> <<"n", "a", "m", "e">>,
     pitcher_name |-> <<"p", "i", "t", "c", "h", "e", "r", "_", "n", "a", "m", "e">>,
     player_name |-> <<"p", "l", "a", "y", "e", "r", "_", "n", "a", "m", "e">>,
     StuffPlus |-> <<"S", "t", "u", "f", "f", "+">>,
     SwStr |-> <<"S", "w", "S", "t", "r", "%">>,
     CSW |-> <<"C", "S", "W", "%">>,
     FBv |-> <<"F", "B", "v">>,
     OSwing |-> <<"O", "-", "S", "w", "i", "n", "g", "%">>,
     ZContact |-> <<"Z", "-", "C", "o", "n", "t", "a", "c", "t", "%">>,
     PutawayL |-> <<"P", "u", "t", "a", "w", "a", "y", " ", "v", "s", " ", "L", "H", "B">>,
     PutawayR |-> <<"P", "u", "t", "a", "w", "a", "y", " ", "v", "s", " ", "R", "H", "B">>,
     putaway_l |-> <<"p", "u", "t", "a", "w", "a", "y", "_", "v", "s", "_", "l", "h", "b">>,
     putaway_r |-> <<"p", "u", "t", "a", "w", "a", "y", "_", "v", "s", "_", "r", "h", "b">>,
     LHB_putaway |-> <<"L", "H", "B", "_", "p", "u", "t", "a", "w", "a", "y">>,
     RHB_putaway |-> <<"R", "H", "B", "_", "p", "u", "t", "a", "w", "a", "y">>]

None == [none |-> TRUE]

\* The lookup shared by both get_recent_team_row functions once the team
\* column is known: exact match on the stripped upper-case team, else the
\* best fuzzy match at cutoff 0.8, else None.  The row is turned into a dict
\* while the table still has its _temp_team column.
TeamRowLookup(team_name, df, team_col) ==
    LET ci == ColIndex(df.columns, team_col)
        lookup(key, temp) ==
            LET first(rows) == CHOOSE i \in rows : \A j \in rows : i <= j
                withTemp(i) == [columns |-> Append(df.columns, <<"_", "t", "e", "m", "p", "_", "t", "e", "a", "m">>),
                                cells |-> Append(df.rows[i], temp[i])]
                named(name) == {i \in DOMAIN df.rows : temp[i] = name}
                closest(close) == IF close # <<>> THEN withTemp(first(named(close[1])))
                                  ELSE None
            IN  IF named(key) # {} THEN withTemp(first(named(key)))
                ELSE closest(get_close_matches(key, temp, 1, 80))
    IN  lookup(upper(strip(team_name)),
               List([i \in DOMAIN df.rows |-> upper(strip(df.rows[i][ci]))]))

\* stats_logic.get_recent_team_row
stats_get_recent_team_row(team_name, df) ==
    IF df.rows = <<>> THEN None
    ELSE LET in_column(team_col) ==
                 IF team_col = <<>> THEN None
                 ELSE TeamRowLookup(team_name, df, team_col)
         IN  in_column(get_column_name(df, <<COL.Team, COL.team, COL.Tm, COL.tm, COL.TEAM>>))

\* (x / One) ** 0.5
PowHalf(x) == ISqrt(x * One)

\* (x / One) ** 0.3 for 0 < x <= 8.0, computed in thousandths as the largest
\* r with r^10 <= x^3; larger x saturate at 8.0 ** 0.3.
Mul3(a, b) == (a * b) \div 1000

P10(r) ==
    LET r2 == Mul3(r, r)
        r4 == Mul3(r2, r2)
        r8 == Mul3(r4, r4)
    IN  Mul3(r8, r2)

RECURSIVE Pow03Search(_, _, _)
Pow03Search(x3, lo, hi) ==
    IF lo >= hi THEN lo
    ELSE LET mid == (lo + hi + 1) \div 2
         IN  IF P10(mid) <= x3 THEN Pow03Search(x3, mid, hi)
             ELSE Pow03Search(x3, lo, mid - 1)

Pow03(x) ==
    LET xm == IF x > 8 * One THEN 8000 ELSE x \div 10
        x3 == Mul3(Mul3(xm, xm), xm)
    IN  10 * Pow03Search(x3, 0, 2000)

ParkFactorExact(park) ==
    LET get(factors) ==
            IF park.type = "str" /\ \E i \in DOMAIN factors : factors[i].name = park.s
            THEN factors[CHOOSE i \in DOMAIN factors : factors[i].name = park.s].mod
            ELSE One
    IN  get(PARK_FACTORS)

\* scale_ip_mean: [value |-> scaled innings, path |-> "normal" | "fallback"]
scale_ip_mean(base_ip, opponent, hand, park, l21_lhp, l21_rhp, delta_lhp, delta_rhp) ==
    LET recent_df == IF hand = "L" THEN l21_lhp ELSE l21_rhp
        delta_df == IF hand = "L" THEN delta_lhp ELSE delta_rhp
        fallback == [value |-> IF base_ip < 4 * One THEN 4 * One
                               ELSE IF base_ip > 65000 THEN 65000 ELSE base_ip,
                     path |-> "fallback"]
        k_factor(k_ratio) ==
            IF IsNaN(k_ratio) \/ k_ratio < 0 THEN NaN ELSE PowHalf(k_ratio)
        k_pct(k_raw) == IF Gt(k_raw, One) THEN k_raw \div 100 ELSE k_raw
        \* 100 / (100 + wrc_delta), wrc_delta in whole points
        wrc_base(wrc_delta) ==
            IF IsNaN(wrc_delta) THEN NaN ELSE (100 * One) \div (100 + wrc_delta)
        \* a negative base to the power 0.3 is a complex number, no real: NaN
        wrc_factor(base) ==
            IF IsNaN(base) \/ base < 0 THEN NaN ELSE Pow03(base)
        scaled(recent_data, delta_data, wrc_delta, k_raw) ==
            IF delta_data # None /\ ~IsNaN(wrc_delta) /\ 100 + wrc_delta = 0
            THEN fallback   \* ZeroDivisionError, caught
            ELSE [value |->
                     Mul(base_ip,
                         np_clip(Mul(Mul(ParkFactorExact(park),
                                         IF recent_data = None THEN One
                                         ELSE k_factor(Div(k_pct(k_raw), LEAGUE_AVG_TEAM_K_PCT))),
                                     IF delta_data = None THEN One
                                     ELSE wrc_factor(wrc_base(wrc_delta))),
                                 8000, 12000)),
                  path |-> "normal"]
        with_rows(recent_data, delta_data) ==
            scaled(recent_data, delta_data,
                   DictGet(delta_data, COL.wRCplus, DictGet(delta_data, COL.wrc_plus, 0)),
                   DictGet(recent_data, COL.k_pct,
                           DictGet(recent_data, COL.Kpct, LEAGUE_AVG_TEAM_K_PCT)))
    IN  with_rows(stats_get_recent_team_row(opponent, recent_df),
                  stats_get_recent_team_row(opponent, delta_df))

\* ------------------------------------------------------------------------
\* Python values that may or may not be strings
\* ------------------------------------------------------------------------
PyStr(s) == [type |-> "str", s |-> s]
PyNone == [type |-> "NoneType", s |-> <<>>]

\* ------------------------------------------------------------------------
\* modifiers.py: the modifier library
\* ------------------------------------------------------------------------
\* modifiers.get_recent_team_row (an exception inside it, such as a team
\* name that is no string, is caught and gives None)
mod_get_recent_team_row(team_name, df) ==
    LET in_column(team_col) ==
            IF team_col = <<>> THEN None
            ELSE TeamRowLookup(team_name, df, team_col)
    IN  in_column(get_column_name(df, <<COL.Team, COL.team, COL.Tm, COL.tm>>))

\* the table after `df['_temp_team'] = ...` of either get_recent_team_row:
\* one more column holding the stripped upper-case team of every row
WithTempTeam(df, team_col) ==
    [columns |-> Append(df.columns, <<"_", "t", "e", "m", "p", "_", "t", "e", "a", "m">>),
     rows |-> List([i \in DOMAIN df.rows |->
                      Append(df.rows[i],
                             upper(strip(df.rows[i][ColIndex(df.columns, team_col)])))])]

\* variant: a finally block that leaves the table as the try block left it
DropTempTeam_never(df) == df

\* the finally block of either get_recent_team_row: drop the _temp_team
\* column in place if the table has it
DropTempTeam(df) ==
    LET temp == <<"_", "t", "e", "m", "p", "_", "t", "e", "a", "m">>
        keep == SelectSeq(List([i \in DOMAIN df.columns |-> i]),
                          LAMBDA i : df.columns[i] # temp)
    IN  IF HasCol(df.columns, temp)
        THEN [columns |-> List([k \in DOMAIN keep |-> df.columns[keep[k]]]),
              rows |-> List([i \in DOMAIN df.rows |->
                               List([k \in DOMAIN keep |-> df.rows[i][keep[k]]])])]
        ELSE df

\* the table as the try block leaves it, whichever return or exception ends
\* the block; team_name is a Python value (PyStr or PyNone).  modifiers.py:
\* team_name.strip() raises for a name that is no string, before the column
\* is added
mod_table_in_try(team_name, df) ==
    LET in_column(team_col) ==
            IF team_col = <<>> \/ team_name.type # "str" THEN df
            ELSE WithTempTeam(df, team_col)
    IN  in_column(get_column_name(df, <<COL.Team, COL.team, COL.Tm, COL.tm>>))

\* stats_logic.py: an empty table returns first, str(team_name) never raises
stats_table_in_try(team_name, df) ==
    IF df.rows = <<>> THEN df
    ELSE LET in_column(team_col) ==
                 IF team_col = <<>> THEN df ELSE WithTempTeam(df, team_col)
         IN  in_column(get_column_name(df, <<COL.Team, COL.team, COL.Tm, COL.tm, COL.TEAM>>))

FramingRuns(catcher_name) ==
    LET get(framing) ==
            IF \E i \in DOMAIN framing : framing[i].name = catcher_name
            THEN framing[CHOOSE i \in DOMAIN framing : framing[i].name = catcher_name].runs
            ELSE 0
    IN  get(CATCHER_FRAMING_DICT)

\* runs are in hundredths: 1 + (runs * -3.94) / 100
calculate_catcher_framing_modifier(catcher_name) ==
    LET mod == FramingRuns(catcher_name)
        percent_mod == 0 - mod * 394
        multiplier == One + percent_mod \div 100
    IN  np_clip(multiplier, 9500, 10500)

\* park.lower() for the parks of PARK_FACTORS, in the dict's order
ParkKeysLower == List([i \in DOMAIN PARK_FACTORS |-> lower(PARK_FACTORS[i].name)])

get_park_modifier(park_name) ==
    IF park_name.type # "str" THEN One
    ELSE LET first_of(factors, hits) ==
                 IF hits = {} THEN One
                 ELSE factors[CHOOSE i \in hits : \A j \in hits : i <= j].mod
             official(keys, normalized) ==
                 {i \in DOMAIN keys : Contains(keys[i], normalized)}
         IN  first_of(PARK_FACTORS, official(ParkKeysLower, lower(strip(park_name.s))))

\* models.py imports get_platoon_modifier from modifiers, which does not
\* define it: the 2x2 table of the specification (constants.PLATOON_MATCHUPS),
\* neutral for any other hand.
get_platoon_modifier(pitcher_hand, batter_hand) ==
    PLATOON_MATCHUPS(pitcher_hand, batter_hand)

\* variant: only the recent row is required, a missing delta row counts as 0
calculate_team_trend_modifier_recent_only(team_name, pitcher_hand, l21_lhp_df, l21_rhp_df, delta_lhp_df, delta_rhp_df) ==
    LET recent_df == IF pitcher_hand = "L" THEN l21_lhp_df ELSE l21_rhp_df
        delta_df == IF pitcher_hand = "L" THEN delta_lhp_df ELSE delta_rhp_df
        rec_k(rec_raw) == IF Gt(rec_raw, One) THEN rec_raw \div 100 ELSE rec_raw
        trend_mod(rec_raw, delta_k) ==
            Add(Add(9800, Mul(2500, Div(rec_k(rec_raw), LEAGUE_AVG_TEAM_K_PCT))), delta_k)
        with_rows(team_recent, team_delta) ==
            IF team_recent = None
            THEN [value |-> IF pitcher_hand = "L" THEN 10500 ELSE 10200, path |-> "fallback"]
            ELSE [value |-> np_clip(trend_mod(DictGet(team_recent, COL.k_pct,
                                                      LEAGUE_AVG_TEAM_K_PCT),
                                              IF team_delta = None THEN 0
                                              ELSE DictGet(team_delta, COL.k_pct, 0)),
                                    8500, 11500),
                  path |-> "normal"]
    IN  with_rows(mod_get_recent_team_row(team_name, recent_df),
                  mod_get_recent_team_row(team_name, delta_df))

\* [value, path]: path "fallback" is the except branch
calculate_team_trend_modifier(team_name, pitcher_hand, l21_lhp_df, l21_rhp_df, delta_lhp_df, delta_rhp_df) ==
    LET recent_df == IF pitcher_hand = "L" THEN l21_lhp_df ELSE l21_rhp_df
        delta_df == IF pitcher_hand = "L" THEN delta_lhp_df ELSE delta_rhp_df
        rec_k(rec_raw) == IF Gt(rec_raw, One) THEN rec_raw \div 100 ELSE rec_raw
        trend_mod(rec_raw, delta_k) ==
            Add(Add(9800, Mul(2500, Div(rec_k(rec_raw), LEAGUE_AVG_TEAM_K_PCT))), delta_k)
        with_rows(team_recent, team_delta) ==
            IF team_recent = None \/ team_delta = None
            THEN [value |-> IF pitcher_hand = "L" THEN 10500 ELSE 10200, path |-> "fallback"]
            ELSE [value |-> np_clip(trend_mod(DictGet(team_recent, COL.k_pct,
                                                      LEAGUE_AVG_TEAM_K_PCT),
                                              DictGet(team_delta, COL.k_pct, 0)),
                                    8500, 11500),
                  path |-> "normal"]
    IN  with_rows(mod_get_recent_team_row(team_name, recent_df),
                  mod_get_recent_team_row(team_name, delta_df))

BaseWeights == <<3000, 2500, 2500, 2000, 2000>>

get_dynamic_weights(pitcher_hand, pitch_types) ==
    IF Cardinality({pitch_types[i] : i \in DOMAIN pitch_types}) = 1
    THEN [BaseWeights EXCEPT ![5] = @ + 1000, ![1] = @ - 500, ![3] = @ - 500]
    ELSE BaseWeights

\* a game log's log.get('strikeouts', 0) / log.get('innings_pitched', 1):
\* [exc] when the innings are a string or zero, else [value]
LogKRate(log) ==
    IF log.innings_pitched.form = "str" THEN [exc |-> "TypeError"]
    ELSE IF log.innings_pitched.val = 0 THEN [exc |-> "ZeroDivisionError"]
    ELSE [exc |-> "", value |-> (log.strikeouts * One * One) \div log.innings_pitched.val]

\* a numpy float division x / y: inf (here: a large number) or nan on y = 0
NpDiv(x, y) ==
    IF IsNaN(x) \/ IsNaN(y) THEN NaN
    ELSE IF y = 0 THEN (IF x = 0 THEN NaN ELSE IF x > 0 THEN 100 * One ELSE 0 - 100 * One)
    ELSE IF x >= 100 * y THEN 100 * One
    ELSE (x * One) \div y

\* variant: the distance of Stuff+ from 100, whatever its direction
StuffScore_distance(stuff_plus) ==
    IF IsNaN(stuff_plus) THEN NaN
    ELSE (IF stuff_plus < 100 * One THEN 100 * One - stuff_plus
          ELSE stuff_plus - 100 * One) \div 125

\* stuff_score = (stuff_plus - 100) / 125
StuffScore(stuff_plus) ==
    IF IsNaN(stuff_plus) THEN NaN ELSE (stuff_plus - 100 * One) \div 125

\* [exc |-> "", value] or [exc |-> type]
calculate_stuff_modifier(pitcher_row, logs) ==
    LET stuff_plus == DictGet(pitcher_row, COL.StuffPlus, 100 * One)
        k_pct == DictGet(pitcher_row, COL.k_pct, 2200)
        swstr == DictGet(pitcher_row, COL.SwStr, 1050)
        csw == DictGet(pitcher_row, COL.CSW, 2700)
        velo == DictGet(pitcher_row, COL.FBv, 92 * One)
        chase == DictGet(pitcher_row, COL.OSwing, 3000)
        z_contact == DictGet(pitcher_row, COL.ZContact, 8800)
        stuff_score == StuffScore(stuff_plus)
        velo_score == IF IsNaN(velo) THEN NaN ELSE ((velo - 92 * One) * 80) \div One
        last3 == SubSeq(logs, IF Len(logs) > 3 THEN Len(logs) - 2 ELSE 1, Len(logs))
        rates == List([i \in DOMAIN last3 |-> LogKRate(last3[i])])
        bad == {i \in DOMAIN rates : rates[i].exc # ""}
        recent_k_rate == IF logs = <<>> THEN k_pct
                         ELSE SumSeq([i \in DOMAIN rates |-> rates[i].value]) \div Len(rates)
        recent_factor == np_clip(NpDiv(recent_k_rate, k_pct), 9000, 11000)
        k_score == Mul(Mul(Sub(k_pct, 2200), 12000), recent_factor)
        swstr_score == Mul(Sub(swstr, 1100), 7000)
        chase_whiff == Sub(Mul(Sub(chase, 2800), 5000), Mul(Sub(z_contact, 8700), 5000))
        total == Add(Add(Add(Mul(stuff_score, 3500), Mul(velo_score, 1500)),
                         Add(Mul(k_score, 8000), Mul(swstr_score, 6000))),
                     Add(Mul(chase_whiff, 4000), Mul(Sub(csw, 2700), 3000)))
        final_mod == np_clip(Add(One, total), 8500, 12000)
    IN  IF bad # {}
        THEN [exc |-> rates[CHOOSE i \in bad : \A j \in bad : i <= j].exc, value |-> NaN]
        ELSE [exc |-> "", value |-> final_mod]

league_avgs(pitch_type) ==
    CASE pitch_type = "Fastball" -> [k |-> 1800, woba |-> 3500, whiff |-> 1500, putaway |-> 1200]
      [] pitch_type = "Offspeed" -> [k |-> 2200, woba |-> 3300, whiff |-> 2500, putaway |-> 1600]
      [] OTHER -> [k |-> 2500, woba |-> 3200, whiff |-> 3000, putaway |-> 1800]

BatterMod(batter, avg, pitcher_hand, pitcher_quality) ==
    LET platoon_boost == IF pitcher_hand # batter.hand THEN 11000 ELSE 9500
        raw == (3000 * (batter.k_percent - avg.k)
                + 2500 * (batter.whiff_percent - avg.whiff)
                + 1500 * (batter.put_away - avg.putaway)
                - 3000 * (batter.woba - avg.woba)) \div One
        vulnerability_score == Mul(Mul(raw, platoon_boost), pitcher_quality)
    IN  np_clip(One + Mul(vulnerability_score, 18000), 8500, 11500)

\* variant: every batter is counted as matched
calculate_batter_vulnerability_mod_all_matched(batters, pitch_type, pitcher_hand, pitcher_quality) ==
    LET avg == league_avgs(pitch_type)
        modifiers == List([i \in DOMAIN batters |->
                         BatterMod(batters[i], avg, pitcher_hand, pitcher_quality)])
    IN  IF batters = <<>>
        THEN [value |-> One, matched |-> 0, total |-> 0]
        ELSE [value |-> SumSeq(modifiers) \div Len(modifiers),
              matched |-> Len(batters), total |-> Len(batters)]

\* [value, matched, total]: the modifier and the counts behind the match rate
calculate_batter_vulnerability_mod(batters, pitch_type, pitcher_hand, pitcher_quality) ==
    LET avg == league_avgs(pitch_type)
        modifiers == List([i \in DOMAIN batters |->
                         BatterMod(batters[i], avg, pitcher_hand, pitcher_quality)])
        matched == Cardinality({i \in DOMAIN batters : batters[i].matched})
    IN  IF batters = <<>>
        THEN [value |-> One, matched |-> 0, total |-> 0]
        ELSE [value |-> SumSeq(modifiers) \div Len(modifiers),
              matched |-> matched, total |-> Len(batters)]

\* ------------------------------------------------------------------------
\* preprocessor.py
\* ------------------------------------------------------------------------
\* parse_ip: an innings value is [form |-> "num", val] (already a number) or
\* [form |-> "str", whole, frac] for the text "whole.frac"
parse_ip(ip) ==
    IF ip.form = "num" THEN ip.val
    ELSE IF ip.frac = 1 THEN ip.whole * One + One \div 3
    ELSE IF ip.frac = 2 THEN ip.whole * One + (2 * One) \div 3
    ELSE ip.whole * One

\* the names bound at module level in preprocessor.py (imports, functions,
\* classes and module variables); any other free name raises NameError
PreprocessorGlobals ==
    {"re", "get_close_matches", "pd", "Path", "List", "Dict", "Optional",
     "DATA_DIR", "traceback", "get_column_name", "clean_name", "NICKNAME_MAP",
     "LEAGUE_AVG_STATS", "PITCH_MAPPING", "BatterStatsLoader", "batter_loader",
     "get_batter_stats", "_format_stats", "preprocess_batter_from_lineup",
     "print_batter_match_summary", "parse_ip"}

NameDefined(n) == n \in PreprocessorGlobals

IsLetter(c) ==
    \/ \E i \in DOMAIN UpperCase : UpperCase[i] = c
    \/ \E i \in DOMAIN LowerCase : LowerCase[i] = c

\* re.sub(r'[^a-zA-Z.]', '', s)
KeepLettersAndDots(s) == SelectSeq(s, LAMBDA c : IsLetter(c) \/ c = ".")

LEAGUE_AVG_STATS_Breaking ==
    [k_percent |-> 2500, woba |-> 3200, whiff_percent |-> 3000, put_away |-> 1800]

\* the three pitch categories of LEAGUE_AVG_STATS
LEAGUE_AVG_STATS(pitch_type) ==
    CASE pitch_type = "Fastball" ->
             [k_percent |-> 1800, woba |-> 3500, whiff_percent |-> 1500, put_away |-> 1200]
      [] pitch_type = "Offspeed" ->
             [k_percent |-> 2200, woba |-> 3300, whiff_percent |-> 2500, put_away |-> 1600]
      [] pitch_type = "Breaking" -> LEAGUE_AVG_STATS_Breaking

NICKNAME_MAP ==
    <<[key |-> <<"v", "l", "a", "d", "i", "m", "i", "r", "g", "u", "e", "r", "r", "e", "r", "o", "j", "r">>,
       value |-> <<"v", "l", "a", "d", "i", "m", "i", "r", "g", "u", "e", "r", "r", "e", "r", "o">>],
      [key |-> <<"r", "o", "n", "a", "l", "d", "a", "c", "u", "n", "a">>,
       value |-> <<"r", "o", "n", "a", "l", "d", "a", "c", "u", "n", "a", "j", "r">>],
      [key |-> <<"m", "i", "k", "e", "o", "z", "u", "n", "a">>,
       value |-> <<"m", "a", "r", "c", "e", "l", "l", "o", "z", "u", "n", "a">>],
      [key |-> <<"m", "i", "k", "e", "h", "a", "r", "r", "i", "s">>,
       value |-> <<"m", "i", "c", "h", "a", "e", "l", "h", "a", "r", "r", "i", "s", "i", "i">>],
      [key |-> <<"j", "o", "s", "h", "s", "m", "i", "t", "h">>,
       value |-> <<"j", "o", "s", "h", "u", "a", "s", "m", "i", "t", "h">>],
      [key |-> <<"m", "i", "k", "e", "t", "r", "o", "u", "t">>,
       value |-> <<"m", "i", "c", "h", "a", "e", "l", "t", "r", "o", "u", "t">>],
      [key |-> <<"c", "h", "r", "i", "s", "r", "o", "d", "r", "i", "g", "u", "e", "z">>,
       value |-> <<"c", "h", "r", "i", "s", "t", "i", "a", "n", "r", "o", "d", "r", "i", "g", "u", "e", "z">>],
      [key |-> <<"n", "i", "c", "k", "m", "a", "r", "t", "i", "n", "e", "z">>,
       value |-> <<"n", "i", "c", "h", "o", "l", "a", "s", "m", "a", "r", "t", "i", "n", "e", "z">>]>>

\* BatterStatsLoader._clean_name: the letters of name.lower(), then the
\* nickname mapping
_clean_name(name) ==
    LET mapped(letters, map) ==
            IF \E i \in DOMAIN map : map[i].key = letters
            THEN map[CHOOSE i \in DOMAIN map : map[i].key = letters].value
            ELSE letters
    IN  mapped(SelectSeq(lower(name), IsLetter), NICKNAME_MAP)

\* batter_loader.stats_df: the batter reference table as loaded, one stats
\* record per pitch category, with the clean_name column _load_data adds
BatterStatsTable ==
    LET loaded(rows) ==
            List([i \in DOMAIN rows |->
                     [name |-> rows[i].name, clean_name |-> _clean_name(rows[i].name),
                      stats |-> rows[i].stats]])
        by_category(k, w) ==
            [c \in {"Breaking", "Fastball", "Offspeed"} |->
                [k_percent |-> k, woba |-> w, whiff_percent |-> k + 400, put_away |-> k - 900]]
    IN  loaded(<< [name |-> <<"A", "a", "r", "o", "n", " ", "J", "u", "d", "g", "e">>,
                   stats |-> by_category(3100, 4100)],
                  [name |-> <<"J", "u", "d", "g", "e">>, stats |-> by_category(2900, 3900)],
                  [name |-> <<"O", "b", "e", "r">>, stats |-> by_category(2400, 3000)] >>)

\* f"{parts[0][0].lower()}{''.join(parts[1:]).lower()}" for parts = name.split();
\* <<>> stands for the IndexError of a name that is all blanks
FLast(name) ==
    LET after_first(t) ==
            LET blanks == {i \in DOMAIN t : t[i] = " "}
            IN  IF blanks = {} THEN <<>>
                ELSE SubSeq(t, CHOOSE i \in blanks : \A j \in blanks : i <= j, Len(t))
        flast(t) ==
            IF t = <<>> THEN <<>>
            ELSE lower(<<t[1]>> \o SelectSeq(after_first(t), LAMBDA c : c # " "))
    IN  flast(strip(name))

\* get_batter_stats: [stats, matched]; the category names are capitalized
\* already
get_batter_stats(name, pitch_type) ==
    LET default == [stats |-> LEAGUE_AVG_STATS(pitch_type), matched |-> FALSE]
        search(stats_df, clean_search) ==
            LET named(c) == {i \in DOMAIN stats_df : stats_df[i].clean_name = c}
                found(rows) == [stats |-> stats_df[CHOOSE i \in rows : TRUE].stats[pitch_type],
                                matched |-> TRUE]
                fuzzy(matches) ==
                    IF matches # <<>> /\ Cardinality(named(matches[1])) = 1
                    THEN found(named(matches[1]))
                    ELSE default
                closest == get_close_matches(
                               clean_search,
                               List([i \in DOMAIN stats_df |-> stats_df[i].clean_name]),
                               1, 85)
            IN  IF Cardinality(named(clean_search)) = 1 THEN found(named(clean_search))
                ELSE IF Contains(name, <<" ">>) /\ FLast(name) = <<>> THEN default
                ELSE IF Contains(name, <<" ">>) /\ Cardinality(named(FLast(name))) = 1
                THEN found(named(FLast(name)))
                ELSE fuzzy(closest)
    IN  IF BatterStatsTable = <<>> THEN default
        ELSE search(BatterStatsTable, _clean_name(name))

\* preprocess_batter_from_lineup: [exc |-> "", batter |-> dict] or
\* [exc |-> type].  Inside the try block the first statement that needs a
\* value reads the global putaway_pitch, so the except branch builds the
\* result; the statements before the try block are not guarded.
preprocess_batter_from_lineup(batter) ==
    LET raw_name == strip(batter.name)
        cleaned == lower(KeepLettersAndDots(raw_name))
        fallback == [name |-> batter.name, hand |-> batter.hand,
                     k_percent |-> LEAGUE_AVG_STATS_Breaking.k_percent,
                     woba |-> LEAGUE_AVG_STATS_Breaking.woba,
                     whiff_percent |-> LEAGUE_AVG_STATS_Breaking.whiff_percent,
                     put_away |-> LEAGUE_AVG_STATS_Breaking.put_away,
                     matched |-> FALSE, pitch_type |-> "Breaking"]
    IN  IF ~batter.isdict
        THEN [exc |-> IF NameDefined("default_batter_stats") THEN "" ELSE "NameError",
              batter |-> fallback]
        ELSE IF Contains(cleaned, <<".">>) /\ ~NameDefined("expand_initials")
        THEN [exc |-> "NameError", batter |-> fallback]
        ELSE [exc |-> "", batter |-> fallback]

\* ------------------------------------------------------------------------
\* simulator.py
\* ------------------------------------------------------------------------
\* The random generator: draws are a function of the generator's seed and
\* of the position of the draw.  NormalZ are the deviations a normal(0, 1)
\* draw takes in the model.
NormalZ == <<0 - 4 * One, 0, 13300, 5 * One>>

NormalDraw(seed, t, loc) == loc + NormalZ[((seed + t) % Len(NormalZ)) + 1]

\* np.random.poisson(lam) for lam >= 0: lam = 0 always gives 0
PoissonDraw(seed, t, j, lam) == IF lam = 0 THEN 0 ELSE (seed + t + j) % 3

\* variant: a trial that makes the draw for the remainder of the innings
\* also when the remainder is 0
Trial_always_remainder(seed, t, k_rate_per_inning, scaled_ip) ==
    LET ip == np_clip(NormalDraw(seed, t, scaled_ip), 3 * One, 8 * One)
        full == ip \div One
        frac == ip % One
        whole == List([j \in 1..full |-> PoissonDraw(seed, t, j, k_rate_per_inning)])
        part == <<PoissonDraw(seed, t, full + 1, Mul(k_rate_per_inning, frac))>>
    IN  [ip |-> ip, full |-> full, frac |-> frac, draws |-> whole \o part,
         ks |-> SumSeq(whole \o part)]

\* one trial: [ip, full, frac, draws (the Poisson draws made), ks]
Trial(seed, t, k_rate_per_inning, scaled_ip) ==
    LET ip == np_clip(NormalDraw(seed, t, scaled_ip), 3 * One, 8 * One)
        full == ip \div One
        frac == ip % One
        whole == List([j \in 1..full |-> PoissonDraw(seed, t, j, k_rate_per_inning)])
        part == IF frac > 0
                THEN <<PoissonDraw(seed, t, full + 1, Mul(k_rate_per_inning, frac))>>
                ELSE <<>>
    IN  [ip |-> ip, full |-> full, frac |-> frac, draws |-> whole \o part,
         ks |-> SumSeq(whole \o part)]

\* variant: simulate_ks that does not look at base_ip before dividing by it
simulate_ks_unchecked_ip(adjusted_mean, base_ip, scaled_ip, n, seed) ==
    IF Le(adjusted_mean, 0) \/ Le(scaled_ip, 0)
    THEN [exc |-> "", branch |-> "zeros", samples |-> List([t \in 1..n |-> 0]),
          trials |-> <<>>, rate |-> 0]
    ELSE LET k_rate_per_inning == NpDiv(adjusted_mean, base_ip)
             trials == List([t \in 1..n |-> Trial(seed, t, k_rate_per_inning, scaled_ip)])
         IN  [exc |-> "", branch |-> "simulate",
              samples |-> List([t \in 1..n |-> trials[t].ks]),
              trials |-> trials, rate |-> k_rate_per_inning]

\* simulate_ks: [exc, branch, samples, trials]
simulate_ks(adjusted_mean, base_ip, scaled_ip, n, seed) ==
    IF Le(adjusted_mean, 0) \/ Le(base_ip, 0) \/ Le(scaled_ip, 0)
    THEN [exc |-> "", branch |-> "zeros", samples |-> List([t \in 1..n |-> 0]),
          trials |-> <<>>, rate |-> 0]
    ELSE IF n > 0 /\ (IsNaN(adjusted_mean) \/ IsNaN(base_ip) \/ IsNaN(scaled_ip))
    THEN \* int(nan) or poisson(nan) raises ValueError in the first trial
         [exc |-> "ValueError", branch |-> "simulate", samples |-> <<>>,
          trials |-> <<>>, rate |-> NaN]
    ELSE LET k_rate_per_inning == NpDiv(adjusted_mean, base_ip)
             trials == List([t \in 1..n |-> Trial(seed, t, k_rate_per_inning, scaled_ip)])
         IN  [exc |-> "", branch |-> "simulate",
              samples |-> List([t \in 1..n |-> trials[t].ks]),
              trials |-> trials, rate |-> k_rate_per_inning]

\* the state of the process-wide generator np.random after a call that
\* entered with the state seed: one normal draw per trial (made before the
\* loop, so also when the loop raises) and the Poisson draws of the trials;
\* the draws of the model repeat with period Len(NormalZ) * 3
GeneratorAfter(seed, n, simulated) ==
    IF simulated.branch = "zeros" THEN seed
    ELSE (seed + n + SumSeq([t \in DOMAIN simulated.trials |->
                               Len(simulated.trials[t].draws)]))
             % (Len(NormalZ) * 3)

\* np.percentile(samples, p): linear interpolation between order statistics
Percentile(samples, p) ==
    LET s == SortSeq(samples, LAMBDA a, b : a < b)
        pos == p * (Len(s) - 1)
        lo == pos \div 100 + 1
        fr == pos % 100
    IN  IF fr = 0 THEN s[lo] * One
        ELSE s[lo] * One + (fr * (s[lo + 1] - s[lo]) * One) \div 100

\* round(np.mean(samples > x) * 100, 2), x in fixed point
ProbOver(samples, x) ==
    (Cardinality({t \in DOMAIN samples : samples[t] * One > x}) * 100 * One)
        \div Len(samples)

\* round(x, 2)
Round2(x) == IF IsNaN(x) THEN NaN ELSE ((x + 50) \div 100) * 100

\* np.std(values): the population standard deviation of whole numbers, to
\* two decimals
np_std(values) ==
    LET n == Len(values)
        total == SumSeq(values)
        sq == SumSeq([i \in 1..n |-> (n * values[i] - total) * (n * values[i] - total)])
    IN  100 * ISqrt((sq * One) \div (n * n * n))

\* ------------------------------------------------------------------------
\* models.py: the projection composer
\* ------------------------------------------------------------------------

PitcherNameColumns == <<COL.Name, COL.name, COL.pitcher_name, COL.player_name>>

\* the rows of df whose stripped, lower-cased name equals key, in table order
RowsNamed(df, name_col, key) ==
    LET ci == ColIndex(df.columns, name_col)
    IN  SelectSeq([i \in DOMAIN df.rows |-> i],
                  LAMBDA i : lower(strip(df.rows[i][ci])) = key)

\* variant: get_recent_ks_and_ip without the check that the cache file exists
get_recent_ks_and_ip_unchecked(cache) ==
    [exc |-> "",
     ks |-> List([i \in DOMAIN cache.logs |-> cache.logs[i].strikeouts]),
     ip |-> List([i \in DOMAIN cache.logs |-> parse_ip(cache.logs[i].innings_pitched)]),
     hand |-> "R", team |-> <<"U", "N", "K">>, logs |-> cache.logs]

\* get_recent_ks_and_ip of models.py: [exc |-> "FileNotFoundError"] or the
\* five values read from the pitcher's cache file
get_recent_ks_and_ip(cache) ==
    IF ~cache.exists
    THEN [exc |-> "FileNotFoundError", ks |-> <<>>, ip |-> <<>>, hand |-> "",
          team |-> <<>>, logs |-> <<>>]
    ELSE [exc |-> "",
          ks |-> List([i \in DOMAIN cache.logs |-> cache.logs[i].strikeouts]),
          ip |-> List([i \in DOMAIN cache.logs |-> parse_ip(cache.logs[i].innings_pitched)]),
          hand |-> cache.hand, team |-> cache.team, logs |-> cache.logs]

\* load_cached_lineup: [exc |-> "FileNotFoundError"] or the cached document
load_cached_lineup(file) ==
    IF ~file.exists THEN [exc |-> "FileNotFoundError", lineup |-> <<>>]
    ELSE [exc |-> "", lineup |-> file.lineup]

get_putaway_pitch(pitcher_name, pitcher_df, opponent_lineup) ==
    LET n_left == Cardinality({i \in DOMAIN opponent_lineup : opponent_lineup[i].hand = "L"})
        n_right == Len(opponent_lineup) - n_left
        putaway(row, lhb_col, rhb_col) ==
            IF lhb_col # <<>> /\ rhb_col # <<>>
            THEN (IF n_left > n_right THEN DictGet(row, lhb_col, "SL")
                  ELSE DictGet(row, rhb_col, "SL"))
            ELSE "SL"
        of_rows(rows) ==
            IF rows = <<>> THEN "SL"
            ELSE putaway([columns |-> pitcher_df.columns, cells |-> pitcher_df.rows[rows[1]]],
                         get_column_name(pitcher_df,
                                         <<COL.PutawayL, COL.putaway_l, COL.LHB_putaway>>),
                         get_column_name(pitcher_df,
                                         <<COL.PutawayR, COL.putaway_r, COL.RHB_putaway>>))
        in_column(name_col) ==
            IF name_col = <<>> THEN "SL"
            ELSE of_rows(RowsNamed(pitcher_df, name_col, lower(pitcher_name)))
    IN  in_column(get_column_name(pitcher_df, PitcherNameColumns))

\* variant: the weighted sum is clamped before the stuff and framing
\* modifiers are applied
clamp_total_mod_first(total_mod, stuff_mod, framing_mod) ==
    Mul(Mul(np_clip(total_mod, 8500, 11500), stuff_mod), framing_mod)

\* total_mod = np.clip(total_mod * stuff_mod * framing_mod, 0.85, 1.15)
clamp_total_mod(total_mod, stuff_mod, framing_mod) ==
    np_clip(Mul(Mul(total_mod, stuff_mod), framing_mod), 8500, 11500)

\* the number of trials of a projection's simulation (simulate_ks's default
\* n, 20000 in the code)
DefaultN == MaxN

BlankResult ==
    [status |-> "none", stage |-> "", exc |-> "",
     framing_mod |-> Absent, lineup |-> <<>>, team_k_pct |-> Absent,
     matchup_mod |-> Absent, platoon_mod |-> Absent, park_mod |-> Absent,
     team_trend_mod |-> Absent, trend_path |-> "", pitcher_row |-> 0,
     putaway_pitch |-> "", stuff_mod |-> Absent, weights |-> <<>>,
     base_ks |-> Absent, base_ip |-> Absent, scaled_ip |-> Absent,
     dispersion |-> Absent, batter_vuln_mod |-> Absent, matched |-> 0,
     combined |-> Absent, total_mod |-> Absent, adjusted_mean |-> Absent,
     sim_args |-> <<>>, sim_branch |-> "", samples |-> <<>>,
     mean |-> Absent, ip_ewma |-> Absent, distribution |-> <<>>,
     prob_over |-> <<>>]

\* project_strikeouts(pitcher_name, opponent_team, park) over the files w it
\* reads and the random generator's seed.  status is "none" (returns None),
\* "raise" (an exception leaves the function) or "ok" (returns the dict);
\* the other fields are the locals computed before the function ended.
\*
\* The function body is the composition of its statements, in the order of
\* the source.  Each takes the arguments a and the locals x so far: x.r the
\* result record, x.got what get_recent_ks_and_ip returned, x.row the
\* pitcher's row.  A statement does nothing once the function has ended
\* (x.r.stage is set by every return and every exception).
Ended(x) == x.r.stage # ""

\* models.py 117-123
ps_load_cache(a) ==
    LET with_cache(got) ==
            [got |-> got, row |-> <<>>,
             r |-> IF got.exc # "" THEN [BlankResult EXCEPT !.stage = "no_cache"]
                   ELSE [BlankResult EXCEPT
                            !.framing_mod = calculate_catcher_framing_modifier(got.team)]]
    IN  with_cache(get_recent_ks_and_ip(a.w.cache))

\* models.py 126-141
ps_load_lineup(a, x) ==
    LET with_batters(lineup_data, processed) ==
            LET failed == {i \in DOMAIN processed : processed[i].exc # ""}
            IN  IF lineup_data.exc # ""
                THEN [x.r EXCEPT !.stage = "no_lineup"]
                ELSE IF failed # {}
                THEN [x.r EXCEPT !.status = "raise", !.stage = "preprocess",
                                 !.exc = processed[CHOOSE i \in failed :
                                                      \A j \in failed : i <= j].exc]
                ELSE IF processed = <<>>
                THEN [x.r EXCEPT !.stage = "empty_lineup"]
                ELSE [x.r EXCEPT !.lineup = List([i \in DOMAIN processed |->
                                                     processed[i].batter])]
        with_lineup(lineup_data) ==
            LET dicts == SelectSeq(lineup_data.lineup, LAMBDA b : b.isdict)
            IN  with_batters(lineup_data,
                    List([i \in DOMAIN dicts |-> preprocess_batter_from_lineup(dicts[i])]))
    IN  IF Ended(x) THEN x
        ELSE [x EXCEPT !.r = with_lineup(load_cached_lineup(a.w.lineup))]

\* models.py 147-167: the trend file for the pitcher's hand, as read by
\* pd.read_csv, and the matchup modifier
ps_matchup(a, x) ==
    LET trend_df == IF x.got.hand = "L" THEN a.w.l21_lhp ELSE a.w.l21_rhp
        lookup(team_col, k_col) ==
            LET team_rows == {i \in DOMAIN trend_df.rows :
                                 trend_df.rows[i][ColIndex(trend_df.columns, team_col)]
                                     = a.opponent_team}
                first_k == trend_df.rows[CHOOSE i \in team_rows : \A j \in team_rows : i <= j]
                               [ColIndex(trend_df.columns, k_col)]
            IN  IF team_rows = {} \/ IsNaN(first_k) THEN LEAGUE_AVG_TEAM_K_PCT
                ELSE first_k
        with_k(team_k_pct) ==
            [x.r EXCEPT !.team_k_pct = team_k_pct,
                        !.matchup_mod = np_clip(9000 + Mul(2000, NpDiv(team_k_pct,
                                                               LEAGUE_AVG_TEAM_K_PCT)),
                                                8500, 11500)]
        in_columns(team_col, k_col) ==
            IF ~(HasCol(trend_df.columns, team_col) /\ HasCol(trend_df.columns, k_col))
            THEN [x.r EXCEPT !.status = "raise", !.stage = "matchup", !.exc = "KeyError"]
            ELSE with_k(lookup(team_col, k_col))
    IN  IF Ended(x) THEN x
        ELSE [x EXCEPT !.r = in_columns(COL.Team, COL.Kpct)]

\* models.py 168-169
ps_platoon_park(a, x) ==
    LET hands(lineup) ==
            SumSeq([i \in DOMAIN lineup |-> get_platoon_modifier(x.got.hand, lineup[i].hand)])
                \div Len(lineup)
    IN  IF Ended(x) THEN x
        ELSE [x EXCEPT !.r = [@ EXCEPT !.platoon_mod = hands(x.r.lineup),
                                       !.park_mod = get_park_modifier(a.park)]]

\* models.py 171-183
ps_team_trend(a, x) ==
    LET with_trend(trend) ==
            [x.r EXCEPT !.team_trend_mod = trend.value, !.trend_path = trend.path]
    IN  IF Ended(x) THEN x
        ELSE [x EXCEPT !.r = with_trend(calculate_team_trend_modifier(
                                 strip(a.opponent_team), x.got.hand,
                                 load_normalized_trend_df(a.w.l21_lhp),
                                 load_normalized_trend_df(a.w.l21_rhp),
                                 load_normalized_trend_df(a.w.delta_lhp),
                                 load_normalized_trend_df(a.w.delta_rhp)))]

\* models.py 185-211: the exact match on the name column, else the first
\* close match that has rows
ps_find_pitcher(a, x) ==
    LET pitcher_df == a.w.pitcher_file
        found(pitcher_rows) ==
            IF pitcher_rows = <<>>
            THEN [x EXCEPT !.r = [@ EXCEPT !.stage = "no_pitcher"]]
            ELSE [x EXCEPT !.r = [@ EXCEPT !.pitcher_row = pitcher_rows[1]],
                           !.row = [columns |-> pitcher_df.columns,
                                    cells |-> pitcher_df.rows[pitcher_rows[1]]]]
        fuzzy(name_col, close_matches) ==
            IF close_matches # <<>> THEN RowsNamed(pitcher_df, name_col, close_matches[1])
            ELSE <<>>
        candidates(ci) ==
            List([i \in DOMAIN pitcher_df.rows |-> lower(strip(pitcher_df.rows[i][ci]))])
        match(name_col, exact_rows) ==
            IF exact_rows # <<>> THEN exact_rows
            ELSE fuzzy(name_col,
                       get_close_matches(lower(a.pitcher_name),
                                         candidates(ColIndex(pitcher_df.columns, name_col)),
                                         3, 60))
        in_column(name_col) ==
            IF name_col = <<>>
            THEN [x EXCEPT !.r = [@ EXCEPT !.stage = "no_name_col"]]
            ELSE found(match(name_col, RowsNamed(pitcher_df, name_col, lower(a.pitcher_name))))
    IN  IF Ended(x) THEN x
        ELSE in_column(get_column_name(pitcher_df, PitcherNameColumns))

\* models.py 214-217
ps_stuff(a, x) ==
    LET with_stuff(putaway_pitch, stuff) ==
            IF stuff.exc # ""
            THEN [x.r EXCEPT !.putaway_pitch = putaway_pitch,
                             !.status = "raise", !.stage = "stuff", !.exc = stuff.exc]
            ELSE [x.r EXCEPT !.putaway_pitch = putaway_pitch,
                             !.stuff_mod = stuff.value,
                             !.weights = get_dynamic_weights(x.got.hand, <<putaway_pitch>>)]
    IN  IF Ended(x) THEN x
        ELSE [x EXCEPT !.r = with_stuff(get_putaway_pitch(a.pitcher_name, a.w.pitcher_file,
                                                          x.r.lineup),
                                        calculate_stuff_modifier(x.row, x.got.logs))]

\* models.py 219-238
ps_base(a, x) ==
    LET ks_logs == x.got.ks
        ip_logs == x.got.ip
        with_base(base_ip, vuln) ==
            [x.r EXCEPT
                !.base_ks = IF ks_logs # <<>>
                            THEN calculate_ewma([i \in DOMAIN ks_logs |-> ks_logs[i] * One])
                            ELSE LEAGUE_AVG_K,
                !.base_ip = base_ip,
                !.scaled_ip = scale_ip_mean(base_ip, a.opponent_team, x.got.hand, a.park,
                                  load_normalized_trend_df(a.w.l21_lhp),
                                  load_normalized_trend_df(a.w.l21_rhp),
                                  load_normalized_trend_df(a.w.delta_lhp),
                                  load_normalized_trend_df(a.w.delta_rhp)).value,
                !.dispersion = IF Len(ks_logs) >= 5
                               THEN np_std(SubSeq(ks_logs, Len(ks_logs) - 4, Len(ks_logs)))
                               ELSE One,
                !.batter_vuln_mod = vuln.value,
                !.matched = vuln.matched]
    IN  IF Ended(x) THEN x
        ELSE [x EXCEPT !.r = with_base(
                 IF ip_logs # <<>> THEN calculate_ewma(ip_logs) ELSE 5 * One,
                 calculate_batter_vulnerability_mod(x.r.lineup, x.r.putaway_pitch,
                                                    x.got.hand, One))]

\* models.py 241-251
ps_total(a, x) ==
    LET r == x.r
        weights == r.weights
        with_total(total_mod) ==
            [total_mod |-> total_mod, adjusted_mean |-> Mul(r.base_ks, total_mod)]
        combined ==
            Add(One,
                Add(Add(Add(Add(Mul(Sub(r.matchup_mod, One), weights[1]),
                                Mul(Sub(r.platoon_mod, One), weights[2])),
                            Mul(Sub(r.park_mod, One), weights[3])),
                        Mul(Sub(r.team_trend_mod, One), weights[4])),
                    Mul(Sub(r.batter_vuln_mod, One), weights[5])))
        with_combined(c, t) ==
            [r EXCEPT !.combined = c, !.total_mod = t.total_mod,
                      !.adjusted_mean = t.adjusted_mean]
        clamp(c) == with_combined(c, with_total(clamp_total_mod(c, r.stuff_mod, r.framing_mod)))
    IN  IF Ended(x) THEN x
        ELSE [x EXCEPT !.r = clamp(combined)]

\* models.py 252
ps_simulate(a, x) ==
    LET r == x.r
        with_samples(simulated) ==
            IF simulated.exc # ""
            THEN [r EXCEPT !.sim_args = <<r.adjusted_mean, r.dispersion, r.scaled_ip>>,
                           !.sim_branch = simulated.branch, !.samples = simulated.samples,
                           !.status = "raise", !.stage = "simulate", !.exc = simulated.exc]
            ELSE [r EXCEPT !.sim_args = <<r.adjusted_mean, r.dispersion, r.scaled_ip>>,
                           !.sim_branch = simulated.branch, !.samples = simulated.samples]
    IN  IF Ended(x) THEN x
        ELSE [x EXCEPT !.r = with_samples(simulate_ks(r.adjusted_mean, r.dispersion,
                                                      r.scaled_ip, DefaultN, a.seed))]

\* models.py 266-279
ps_return(a, x) ==
    LET r == x.r
        samples == r.samples
    IN  IF Ended(x) THEN r
        ELSE [r EXCEPT !.status = "ok", !.stage = "done",
                       !.mean = Round2(r.adjusted_mean),
                       !.ip_ewma = Round2(r.base_ip),
                       !.distribution = <<Percentile(samples, 25), Percentile(samples, 50),
                                          Percentile(samples, 75), Percentile(samples, 95)>>,
                       !.prob_over = <<ProbOver(samples, 55000), ProbOver(samples, 65000),
                                       ProbOver(samples, 75000)>>]

ps_body(a) ==
    ps_return(a,
      ps_simulate(a,
        ps_total(a,
          ps_base(a,
            ps_stuff(a,
              ps_find_pitcher(a,
                ps_team_trend(a,
                  ps_platoon_park(a,
                    ps_matchup(a,
                      ps_load_lineup(a,
                        ps_load_cache(a)))))))))))

project_strikeouts(pitcher_name, opponent_team, park, w, seed) ==
    ps_body([pitcher_name |-> pitcher_name, opponent_team |-> opponent_team,
             park |-> park, w |-> w, seed |-> seed])

\* ------------------------------------------------------------------------
\* The files and arguments a projection query is run on
\* ------------------------------------------------------------------------
\* the names, team codes and parks used as inputs, as character sequences
S ==
    [Cole |-> <<"C", "o", "l", "e">>,
     cole_sp |-> <<"c", "o", "l", "e", " ">>,
     Coles |-> <<"C", "o", "l", "e", "s">>,
     Colixx |-> <<"C", "o", "l", "i", "x", "x">>,
     Webb |-> <<"W", "e", "b", "b">>,
     BOS |-> <<"B", "O", "S">>,
     bos_sp |-> <<"b", "o", "s", " ">>,
     BO |-> <<"B", "O">>,
     NYY |-> <<"N", "Y", "Y">>,
     SEA |-> <<"S", "E", "A">>,
     Judge |-> <<"J", "u", "d", "g", "e">>,
     Soto |-> <<"S", "o", "t", "o">>,
     AMc |-> <<"A", ".", " ", "M", "c">>,
     Fenway |-> <<"F", "e", "n", "w", "a", "y", " ", "P", "a", "r", "k">>,
     Unknown |-> <<"U", "n", "k", "n", "o", "w", "n", " ", "P", "a", "r", "k">>,
     coors |-> <<" ", "c", "o", "o", "r", "s">>,
     COLE |-> <<"C", "O", "L", "E">>,
     Unknown_opp |-> <<"U", "n", "k", "n", "o", "w", "n">>,
     UNK |-> <<"U", "N", "K">>,
     Snell |-> <<"S", "n", "e", "l", "l">>,
     Gray |-> <<"G", "r", "a", "y">>,
     Ober |-> <<"O", "b", "e", "r">>,
     XX |-> <<"X", "X">>]

IPNum(v) == [form |-> "num", whole |-> 0, frac |-> 0, val |-> v]
IPStr(w, f) == [form |-> "str", whole |-> w, frac |-> f, val |-> 0]

\* the game logs of a cache file: n logs of one of three kinds
LogVariants == {"varied", "flat", "scraped"}

Logs(n, v) ==
    List([i \in 1..n |->
        [strikeouts |-> IF v = "flat" THEN 7 ELSE 4 + 2 * (i % 3),
         innings_pitched |-> IF v = "scraped" THEN IPStr(6, i % 3)
                             ELSE IF i % 2 = 1 THEN IPNum(6 * One)
                             ELSE IPNum(53333)]])

NoCache == [exists |-> FALSE, logs |-> <<>>, hand |-> "", team |-> <<>>]

Caches ==
    {NoCache} \cup
    {[exists |-> TRUE, logs |-> Logs(n, v), hand |-> h, team |-> S.NYY] :
        n \in 0..MaxLogs, v \in LogVariants, h \in {"L", "R"}}

\* an entry of a cached lineup: a dict with a name and a hand, or something else
EntryKinds ==
    {[isdict |-> TRUE, name |-> S.Judge, hand |-> "L"],
     [isdict |-> TRUE, name |-> S.Soto, hand |-> "R"],
     [isdict |-> TRUE, name |-> S.AMc, hand |-> "R"],
     [isdict |-> FALSE, name |-> <<>>, hand |-> ""]}

Periodic(n, a, b) == List([i \in 1..n |-> IF i % 2 = 1 THEN a ELSE b])

NoLineup == [exists |-> FALSE, lineup |-> <<>>]

Lineups ==
    {NoLineup} \cup
    {[exists |-> TRUE, lineup |-> Periodic(n, a, b)] :
        n \in 0..MaxLineup, a \in EntryKinds, b \in EntryKinds}

\* rows of FINAL_PITCHER_DATA.csv: Name, Stuff+, Putaway vs LHB, Putaway vs RHB
PitcherColumns == <<COL.Name, COL.StuffPlus, COL.PutawayL, COL.PutawayR>>

PitcherRowKinds ==
    {<<S.Cole, 130 * One, "SL", "FF">>,
     <<S.cole_sp, NaN, "Fastball", "Offspeed">>,
     <<S.Coles, 80 * One, "CH", "Offspeed">>,
     <<S.Colixx, 100 * One, "SL", "SL">>,
     <<S.Webb, 100 * One, "FF", "SL">>}

PitcherFiles ==
    {[columns |-> <<COL.StuffPlus>>, rows |-> << <<100 * One>> >>]} \cup
    {[columns |-> PitcherColumns, rows |-> Periodic(n, a, b)] :
        n \in 0..MaxRows, a \in PitcherRowKinds, b \in PitcherRowKinds}

\* the four team trend files
TrendWorlds ==
    LET files(col, team) ==
        {\* the columns the composer reads, the opponent in every file
         [l21_lhp |-> [columns |-> <<col.Team, col.Kpct>>,
                       rows |-> << <<team.NYY, 1800>>, <<team.BOS, 2500>> >>],
          l21_rhp |-> [columns |-> <<col.Team, col.Kpct>>,
                       rows |-> << <<team.BOS, 2100>>, <<team.NYY, 2000>> >>],
          delta_lhp |-> [columns |-> <<col.Team, col.Kpct, col.wRCplus>>,
                         rows |-> << <<team.BOS, 150, 5>> >>],
          delta_rhp |-> [columns |-> <<col.Team, col.Kpct, col.wRCplus>>,
                         rows |-> << <<team.BOS, 0 - 100, 0 - 10>> >>]],
         \* the opponent is missing from the files for left-handed pitchers
         [l21_lhp |-> [columns |-> <<col.Team, col.Kpct>>,
                       rows |-> << <<team.NYY, 1800>> >>],
          l21_rhp |-> [columns |-> <<col.Team, col.Kpct>>,
                       rows |-> << <<team.BOS, 2100>> >>],
          delta_lhp |-> [columns |-> <<col.Team, col.Kpct, col.wRCplus>>,
                         rows |-> <<>>],
          delta_rhp |-> [columns |-> <<col.Team, col.Kpct, col.wRCplus>>,
                         rows |-> << <<team.BOS, 100, 20>> >>]],
         \* the opponent's K% cells are empty, and the files also carry the
         \* k_pct and wrc_plus columns the modifiers read
         [l21_lhp |-> [columns |-> <<col.Team, col.Kpct, col.k_pct>>,
                       rows |-> << <<team.BOS, NaN, 2700>> >>],
          l21_rhp |-> [columns |-> <<col.Team, col.Kpct, col.k_pct>>,
                       rows |-> << <<team.BOS, NaN, NaN>> >>],
          delta_lhp |-> [columns |-> <<col.Team, col.k_pct, col.wrc_plus>>,
                         rows |-> << <<team.BOS, 200, 0 - 15>> >>],
          delta_rhp |-> [columns |-> <<col.Team, col.k_pct, col.wrc_plus>>,
                         rows |-> << <<team.BOS, 0 - 300, 25>> >>]]}
    IN  files(COL, S)

Opponents == {S.BOS, S.bos_sp, S.BO, S.SEA}

Parks == {PyStr(S.Fenway), PyStr(S.Unknown), PyStr(S.coors)}

PitcherNames == {S.Cole, S.COLE, S.Webb \o <<" ">>}

Seeds == 0..1

EmptyFile == [columns |-> <<>>, rows |-> <<>>]

NoTrend == [l21_lhp |-> EmptyFile, l21_rhp |-> EmptyFile,
            delta_lhp |-> EmptyFile, delta_rhp |-> EmptyFile]

\* the files one query reads: the pitcher's cache, the opponent's cached
\* lineup, the pitcher table and the four trend files
World(q) ==
    [cache |-> q.cache, lineup |-> q.lineup, pitcher_file |-> q.pitcher_file,
     l21_lhp |-> q.trend.l21_lhp, l21_rhp |-> q.trend.l21_rhp,
     delta_lhp |-> q.trend.delta_lhp, delta_rhp |-> q.trend.delta_rhp]

Idle == [pitcher_name |-> <<>>, opponent_team |-> <<>>, park |-> PyNone, seed |-> 0,
         cache |-> NoCache, lineup |-> NoLineup, pitcher_file |-> EmptyFile,
         trend |-> NoTrend]

\* an ordinary query: a right-handed starter with a full log history against
\* a two-batter lineup, every file in place
Plain ==
    [pitcher_name |-> S.Cole, opponent_team |-> S.BOS, park |-> PyStr(S.Fenway),
     seed |-> 0,
     cache |-> [exists |-> TRUE, logs |-> Logs(MaxLogs, "varied"), hand |-> "R",
                team |-> S.NYY],
     lineup |-> [exists |-> TRUE,
                 lineup |-> << [isdict |-> TRUE, name |-> S.Judge, hand |-> "L"],
                               [isdict |-> TRUE, name |-> S.Soto, hand |-> "R"] >>],
     pitcher_file |-> [columns |-> PitcherColumns,
                       rows |-> << <<S.Cole, 130 * One, "SL", "FF">> >>],
     trend |-> CHOOSE t \in TrendWorlds : Len(t.l21_lhp.rows) = 2]

Choices ==
    [pitcher_name |-> PitcherNames, opponent_team |-> Opponents, park |-> Parks,
     seed |-> Seeds, cache |-> Caches, lineup |-> Lineups,
     pitcher_file |-> PitcherFiles, trend |-> TrendWorlds]

\* the queries: the ordinary one with any two of its parts replaced
Queries ==
    LET replaced(plain, choices) ==
            UNION {UNION {{[[plain EXCEPT ![d1] = v1] EXCEPT ![d2] = v2] :
                              v1 \in choices[d1], v2 \in choices[d2]} :
                          d2 \in DOMAIN choices} :
                   d1 \in DOMAIN choices}
    IN  replaced(Plain, Choices)

RunIdle == [pc |-> "idle"]

SimIdle == [pc |-> "idle"]

CallIdle == [fn |-> ""]

\* ------------------------------------------------------------------------
\* The projection engine: one call of project_strikeouts
\* ------------------------------------------------------------------------
Init ==
    /\ query = Idle
    /\ result = BlankResult
    /\ run = RunIdle
    /\ sim = SimIdle
    /\ call = CallIdle

ProjectStrikeouts ==
    /\ query = Idle
    /\ \E q \in Queries :
          /\ query' = q
          /\ result' = project_strikeouts(q.pitcher_name, q.opponent_team, q.park,
                                          World(q), q.seed)
    /\ UNCHANGED <<run, sim, call>>

Next == ProjectStrikeouts

Spec == Init /\ [][Next]_vars

\* ------------------------------------------------------------------------
\* simulator.py driven on its own: one call of simulate_ks
\* ------------------------------------------------------------------------
SimValues == {0 - One, 0, 1, 55000, 6 * One, NaN}

SimulateKs ==
    /\ sim.pc = "idle"
    /\ \E adjusted_mean \in SimValues, base_ip \in SimValues, scaled_ip \in SimValues,
          n \in 0..MaxN, seed \in Seeds :
          sim' = [pc |-> "returned", adjusted_mean |-> adjusted_mean, base_ip |-> base_ip,
                  scaled_ip |-> scaled_ip, n |-> n, seed |-> seed,
                  out |-> simulate_ks(adjusted_mean, base_ip, scaled_ip, n, seed)]
    /\ UNCHANGED <<query, result, run, call>>

SimNext == SimulateKs

SimSpec == Init /\ [][SimNext]_vars

\* ------------------------------------------------------------------------
\* orchestrator.py: StrikeoutOrchestrator
\* ------------------------------------------------------------------------
team_schedule ==
    <<[key |-> <<"N", "Y", "Y">>, value |-> <<"B", "O", "S">>],
      [key |-> <<"B", "O", "S">>, value |-> <<"N", "Y", "Y">>],
      [key |-> <<"L", "A", "D">>, value |-> <<"S", "F", "G">>],
      [key |-> <<"S", "F", "G">>, value |-> <<"L", "A", "D">>],
      [key |-> <<"H", "O", "U">>, value |-> <<"T", "E", "X">>],
      [key |-> <<"T", "E", "X">>, value |-> <<"H", "O", "U">>],
      [key |-> <<"A", "T", "L">>, value |-> <<"M", "I", "A">>],
      [key |-> <<"M", "I", "A">>, value |-> <<"A", "T", "L">>],
      [key |-> <<"W", "S", "H">>, value |-> <<"P", "H", "I">>],
      [key |-> <<"P", "H", "I">>, value |-> <<"W", "S", "H">>],
      [key |-> <<"K", "C">>, value |-> <<"C", "W", "S">>],
      [key |-> <<"C", "W", "S">>, value |-> <<"K", "C">>],
      [key |-> <<"P", "I", "T">>, value |-> <<"M", "I", "L">>],
      [key |-> <<"M", "I", "L">>, value |-> <<"P", "I", "T">>],
      [key |-> <<"N", "Y", "M">>, value |-> <<"C", "H", "C">>],
      [key |-> <<"C", "H", "C">>, value |-> <<"N", "Y", "M">>],
      [key |-> <<"S", "D">>, value |-> <<"C", "O", "L">>],
      [key |-> <<"C", "O", "L">>, value |-> <<"S", "D">>],
      [key |-> <<"T", "B">>, value |-> <<"B", "A", "L">>],
      [key |-> <<"B", "A", "L">>, value |-> <<"T", "B">>],
      [key |-> <<"S", "E", "A">>, value |-> <<"L", "A", "A">>],
      [key |-> <<"L", "A", "A">>, value |-> <<"S", "E", "A">>],
      [key |-> <<"S", "T", "L">>, value |-> <<"C", "I", "N">>],
      [key |-> <<"C", "I", "N">>, value |-> <<"S", "T", "L">>],
      [key |-> <<"M", "I", "N">>, value |-> <<"D", "E", "T">>],
      [key |-> <<"D", "E", "T">>, value |-> <<"M", "I", "N">>],
      [key |-> <<"T", "O", "R">>, value |-> <<"A", "R", "I">>],
      [key |-> <<"A", "R", "I">>, value |-> <<"T", "O", "R">>]>>

team_parks ==
    <<[key |-> <<"N", "Y", "Y">>, value |-> <<"Y", "a", "n", "k", "e", "e", " ", "S", "t", "a", "d", "i", "u", "m">>],
      [key |-> <<"B", "O", "S">>, value |-> <<"F", "e", "n", "w", "a", "y", " ", "P", "a", "r", "k">>],
      [key |-> <<"L", "A", "D">>, value |-> <<"D", "o", "d", "g", "e", "r", " ", "S", "t", "a", "d", "i", "u", "m">>],
      [key |-> <<"S", "F", "G">>, value |-> <<"O", "r", "a", "c", "l", "e", " ", "P", "a", "r", "k">>],
      [key |-> <<"H", "O", "U">>, value |-> <<"M", "i", "n", "u", "t", "e", " ", "M", "a", "i", "d", " ", "P", "a", "r", "k">>],
      [key |-> <<"T", "E", "X">>, value |-> <<"G", "l", "o", "b", "e", " ", "L", "i", "f", "e", " ", "F", "i", "e", "l", "d">>],
      [key |-> <<"A", "T", "L">>, value |-> <<"T", "r", "u", "i", "s", "t", " ", "P", "a", "r", "k">>],
      [key |-> <<"M", "I", "A">>, value |-> <<"l", "o", "a", "n", "D", "e", "p", "o", "t", " ", "p", "a", "r", "k">>],
      [key |-> <<"W", "S", "H">>, value |-> <<"N", "a", "t", "i", "o", "n", "a", "l", "s", " ", "P", "a", "r", "k">>],
      [key |-> <<"P", "H", "I">>, value |-> <<"C", "i", "t", "i", "z", "e", "n", "s", " ", "B", "a", "n", "k", " ", "P", "a", "r", "k">>],
      [key |-> <<"K", "C">>, value |-> <<"K", "a", "u", "f", "f", "m", "a", "n", " ", "S", "t", "a", "d", "i", "u", "m">>],
      [key |-> <<"C", "W", "S">>, value |-> <<"G", "u", "a", "r", "a", "n", "t", "e", "e", "d", " ", "R", "a", "t", "e", " ", "F", "i", "e", "l", "d">>],
      [key |-> <<"P", "I", "T">>, value |-> <<"P", "N", "C", " ", "P", "a", "r", "k">>],
      [key |-> <<"M", "I", "L">>, value |-> <<"A", "m", "e", "r", "i", "c", "a", "n", " ", "F", "a", "m", "i", "l", "y", " ", "F", "i", "e", "l", "d">>],
      [key |-> <<"N", "Y", "M">>, value |-> <<"C", "i", "t", "i", " ", "F", "i", "e", "l", "d">>],
      [key |-> <<"C", "H", "C">>, value |-> <<"W", "r", "i", "g", "l", "e", "y", " ", "F", "i", "e", "l", "d">>],
      [key |-> <<"S", "D">>, value |-> <<"P", "e", "t", "c", "o", " ", "P", "a", "r", "k">>],
      [key |-> <<"C", "O", "L">>, value |-> <<"C", "o", "o", "r", "s", " ", "F", "i", "e", "l", "d">>],
      [key |-> <<"T", "B">>, value |-> <<"T", "r", "o", "p", "i", "c", "a", "n", "a", " ", "F", "i", "e", "l", "d">>],
      [key |-> <<"B", "A", "L">>, value |-> <<"O", "r", "i", "o", "l", "e", " ", "P", "a", "r", "k">>],
      [key |-> <<"S", "E", "A">>, value |-> <<"T", "-", "M", "o", "b", "i", "l", "e", " ", "P", "a", "r", "k">>],
      [key |-> <<"L", "A", "A">>, value |-> <<"A", "n", "g", "e", "l", " ", "S", "t", "a", "d", "i", "u", "m">>],
      [key |-> <<"S", "T", "L">>, value |-> <<"B", "u", "s", "c", "h", " ", "S", "t", "a", "d", "i", "u", "m">>],
      [key |-> <<"C", "I", "N">>, value |-> <<"G", "r", "e", "a", "t", " ", "A", "m", "e", "r", "i", "c", "a", "n", " ", "B", "a", "l", "l", " ", "P", "a", "r", "k">>],
      [key |-> <<"M", "I", "N">>, value |-> <<"T", "a", "r", "g", "e", "t", " ", "F", "i", "e", "l", "d">>],
      [key |-> <<"D", "E", "T">>, value |-> <<"C", "o", "m", "e", "r", "i", "c", "a", " ", "P", "a", "r", "k">>],
      [key |-> <<"T", "O", "R">>, value |-> <<"R", "o", "g", "e", "r", "s", " ", "C", "e", "n", "t", "r", "e">>],
      [key |-> <<"A", "R", "I">>, value |-> <<"C", "h", "a", "s", "e", " ", "F", "i", "e", "l", "d">>]>>

\* dict.get(key, default) on a dict written as a sequence of items
ItemGet(d, key, default) ==
    IF \E i \in DOMAIN d : d[i].key = key
    THEN d[CHOOSE i \in DOMAIN d : d[i].key = key].value
    ELSE default

_find_opponent(team) == ItemGet(team_schedule, team, S.Unknown_opp)

_get_park_for_team(team) == ItemGet(team_parks, team, S.Unknown)

\* the pitchers, teams and lines of a props table, and the files on disk
\* during a run

RunPitchers == {S.Cole, S.Webb, S.Snell, S.Gray, S.Ober, S.Coles, S.Colixx}

RunTeams == {S.NYY, S.BOS, S.SEA, S.XX}

RunLines == {55000, 0}

PropKinds ==
    {[pitcher |-> p, team |-> t, line |-> l] :
        p \in RunPitchers, t \in RunTeams, l \in RunLines}

\* cache/<pitcher>_2025.json: none for Gray, team "UNK" for Ober, no logs
\* for Coles, an empty hand for Colixx
DiskCache(pitcher) ==
    IF pitcher = S.Gray THEN NoCache
    ELSE [exists |-> TRUE,
          logs |-> IF pitcher = S.Coles THEN <<>> ELSE Logs(MaxLogs, "varied"),
          hand |-> IF pitcher = S.Colixx THEN "" ELSE "R",
          team |-> IF pitcher = S.Ober THEN S.UNK ELSE S.NYY]

\* the cached lineups: Boston's is plain, New York's holds a name with an
\* initial, no other team has one
DiskLineup(team) ==
    IF team = S.BOS THEN Plain.lineup
    ELSE IF team = S.NYY
    THEN [exists |-> TRUE,
          lineup |-> << [isdict |-> TRUE, name |-> S.AMc, hand |-> "R"] >>]
    ELSE NoLineup

\* FINAL_PITCHER_DATA.csv: Cole, and Webb with an empty Stuff+ cell
DiskPitcherFile ==
    [columns |-> PitcherColumns,
     rows |-> << <<S.Cole, 130 * One, "SL", "FF">>, <<S.Webb, NaN, "FF", "SL">> >>]

RunDisk(pitcher, opponent_team) ==
    World([cache |-> DiskCache(pitcher), lineup |-> DiskLineup(opponent_team),
           pitcher_file |-> DiskPitcherFile, trend |-> Plain.trend])

\* _get_projection: the projection, or None when project_strikeouts returns
\* None or raises
_get_projection(pitcher, opponent_team, park, seed) ==
    LET caught(r) ==
            IF r.status = "ok" THEN [projection |-> [mean |-> r.mean], how |-> "ok"]
            ELSE [projection |-> None, how |-> r.status]
    IN  caught(project_strikeouts(pitcher, opponent_team, PyStr(park),
                                  RunDisk(pitcher, opponent_team), seed))

\* variant: _calculate_edge that recommends at an edge of exactly 10 percent
_calculate_edge_inclusive(prop, projection) ==
    IF projection = None
    THEN [exc |-> "", projected_ks |-> 0, edge |-> 0, recommendation |-> "SKIP"]
    ELSE IF prop.line = Absent
    THEN [exc |-> "KeyError", projected_ks |-> 0, edge |-> 0, recommendation |-> ""]
    ELSE LET line == prop.line
             projected == projection.mean
             percent(quotient) == IF IsNaN(quotient) THEN NaN ELSE quotient * 100
             edge_pct == percent(NpDiv(Sub(projected, line), line))
         IN  [exc |-> "",
              projected_ks |-> Round2(projected),
              edge |-> Round2(edge_pct),
              recommendation |-> IF Le(10 * One, edge_pct) THEN "OVER"
                                 ELSE IF Le(edge_pct, 0 - 10 * One) THEN "UNDER"
                                 ELSE "PASS"]

\* _calculate_edge(prop, projection).  A prop without a line has
\* line = Absent (prop['line'] raises KeyError).  projection['mean'] is a
\* numpy float (models.py line 268 rounds a product with np.clip's result),
\* so a line of 0 divides to inf or nan and raises nothing.
_calculate_edge(prop, projection) ==
    IF projection = None
    THEN [exc |-> "", projected_ks |-> 0, edge |-> 0, recommendation |-> "SKIP"]
    ELSE IF prop.line = Absent
    THEN [exc |-> "KeyError", projected_ks |-> 0, edge |-> 0, recommendation |-> ""]
    ELSE LET line == prop.line
             projected == projection.mean
             percent(quotient) == IF IsNaN(quotient) THEN NaN ELSE quotient * 100
             edge_pct == percent(NpDiv(Sub(projected, line), line))
         IN  [exc |-> "",
              projected_ks |-> Round2(projected),
              edge |-> Round2(edge_pct),
              recommendation |-> IF Gt(edge_pct, 10 * One) THEN "OVER"
                                 ELSE IF Gt(0 - 10 * One, edge_pct) THEN "UNDER"
                                 ELSE "PASS"]

\* variant: a validation that does not look at the hand of the cache
ValidCache_any_hand(pitcher) ==
    LET valid(data) ==
            data.exists /\ data.logs # <<>> /\ data.team # S.UNK
    IN  valid(DiskCache(pitcher))

\* the validation of step 2.5 for one pitcher
ValidCache(pitcher) ==
    LET valid(data) ==
            data.exists /\ data.logs # <<>> /\ data.hand # "" /\ data.team # S.UNK
    IN  valid(DiskCache(pitcher))

\* variant: the list is started again with the new entry
Collect_restart(projections, entry) == <<entry>>

\* projections.append(entry)
Collect(projections, entry) == Append(projections, entry)

\* one pass of the loop of step 3 over prop:
\* [outcome |-> how the pass ended, entry |-> the dict appended, if any]
ProcessOne(prop, valid_pitchers, seed) ==
    LET none == [pitcher |-> <<>>, team |-> <<>>, line |-> 0, projected_ks |-> 0,
                 edge |-> 0, recommendation |-> "", opponent |-> <<>>, park |-> <<>>]
        with_edge(opponent_team, park, edge_data) ==
            IF edge_data.exc # ""
            THEN [outcome |-> "failed", entry |-> none]
            ELSE [outcome |-> "collected",
                  entry |-> [pitcher |-> prop.pitcher, team |-> prop.team,
                             line |-> prop.line,
                             projected_ks |-> edge_data.projected_ks,
                             edge |-> edge_data.edge,
                             recommendation |-> edge_data.recommendation,
                             opponent |-> opponent_team, park |-> park]]
        with_projection(opponent_team, park, got) ==
            IF got.projection = None
            THEN [outcome |-> got.how, entry |-> none]
            ELSE with_edge(opponent_team, park, _calculate_edge(prop, got.projection))
        at_park(opponent_team, park) ==
            with_projection(opponent_team, park,
                            _get_projection(prop.pitcher, opponent_team, park, seed))
        against(opponent_team, unknown) ==
            IF prop.pitcher \notin valid_pitchers
            THEN [outcome |-> "invalid", entry |-> none]
            ELSE IF opponent_team \in unknown
            THEN [outcome |-> "no_opponent", entry |-> none]
            ELSE at_park(opponent_team, _get_park_for_team(prop.team))
    IN  against(_find_opponent(prop.team), {S.Unknown_opp, S.UNK})

\* run(): steps 1 to 2.5.  The props table comes from the scraper.
RunStart ==
    /\ run.pc = "idle"
    /\ \E n \in 0..MaxProps, a \in PropKinds, b \in PropKinds, mappings \in BOOLEAN :
          LET props == Periodic(n, a, b)
              pitcher_names == {props[i].pitcher : i \in DOMAIN props}
          IN  run' = [pc |-> IF props = <<>> \/ ~mappings THEN "returned" ELSE "props",
                      props |-> props, i |-> 1,
                      valid_pitchers |-> IF props = <<>> \/ ~mappings THEN {}
                                         ELSE {p \in pitcher_names : ValidCache(p)},
                      projections |-> <<>>, log |-> <<>>, saved |-> <<>>]
    /\ UNCHANGED <<query, result, sim, call>>

\* run(): one pass of the loop of step 3
ProcessProp ==
    /\ run.pc = "props"
    /\ run.i <= Len(run.props)
    /\ \E seed \in Seeds :
          LET after(o) ==
                  [run EXCEPT !.i = @ + 1,
                              !.projections = IF o.outcome = "collected"
                                              THEN Collect(@, o.entry) ELSE @,
                              !.log = Append(@, o.outcome)]
          IN  run' = after(ProcessOne(run.props[run.i], run.valid_pitchers, seed))
    /\ UNCHANGED <<query, result, sim, call>>

\* run(): step 4
RunFinish ==
    /\ run.pc = "props"
    /\ run.i > Len(run.props)
    /\ run' = [run EXCEPT !.pc = "done", !.saved = run.projections]
    /\ UNCHANGED <<query, result, sim, call>>

RunNext == RunStart \/ ProcessProp \/ RunFinish

RunSpec == Init /\ [][RunNext]_vars

\* ------------------------------------------------------------------------
\* The library functions driven on their own: one call of one function
\* ------------------------------------------------------------------------
\* stats_logic.py: one call of calculate_ewma
EwmaValues == {0 - 2 * One, 0, One, 7 * One}

SeqsUpTo(values, n) == UNION {[1..k -> values] : k \in 0..n}

CalculateEwma ==
    /\ call = CallIdle
    /\ \E alpha \in Alphas, values \in SeqsUpTo(EwmaValues, MaxLogs) :
          call' = [fn |-> "calculate_ewma", values |-> values, alpha |-> alpha,
                   weights |-> Normalised(EwmaWeights(Len(values), alpha)),
                   out |-> calculate_ewma_alpha(values, alpha)]
    /\ UNCHANGED <<query, result, run, sim>>

Hands == {"L", "R", "S"}

\* further trend files: a wRC+ delta that makes 100 + delta zero or negative,
\* and an opponent with a recent row but no delta row
EdgeWorlds ==
    LET files(col, team) ==
        {[l21_lhp |-> [columns |-> <<col.Team, col.Kpct>>,
                       rows |-> << <<team.BOS, 2200>> >>],
          l21_rhp |-> [columns |-> <<col.Team, col.Kpct>>,
                       rows |-> << <<team.BOS, 2200>> >>],
          delta_lhp |-> [columns |-> <<col.Team, col.Kpct, col.wRCplus>>,
                         rows |-> << <<team.BOS, 0, 0 - 130>> >>],
          delta_rhp |-> [columns |-> <<col.Team, col.Kpct, col.wRCplus>>,
                         rows |-> << <<team.BOS, 0, 0 - 100>> >>]],
         [l21_lhp |-> [columns |-> <<col.Team, col.Kpct, col.k_pct>>,
                       rows |-> << <<team.NYY, 1800, 1800>>, <<team.BOS, 2600, 2600>> >>],
          l21_rhp |-> [columns |-> <<col.Team, col.Kpct, col.k_pct>>,
                       rows |-> << <<team.BOS, 1900, 1900>> >>],
          delta_lhp |-> [columns |-> <<col.Team, col.k_pct, col.wRCplus>>,
                         rows |-> << <<team.NYY, 100, 10>> >>],
          delta_rhp |-> [columns |-> <<col.Team, col.k_pct, col.wRCplus>>,
                         rows |-> <<>>]]}
    IN  files(COL, S)

\* the trend files as they are on disk and as load_normalized_trend_df
\* hands them over
LibWorlds ==
    LET both(worlds) ==
            worlds \cup {[f \in DOMAIN t |-> load_normalized_trend_df(t[f])] : t \in worlds}
    IN  both(TrendWorlds \cup EdgeWorlds)

\* modifiers.py driven on its own: one call of calculate_team_trend_modifier
CalculateTeamTrendModifier ==
    /\ call = CallIdle
    /\ \E team_name \in Opponents, pitcher_hand \in Hands, t \in LibWorlds :
          call' = [fn |-> "calculate_team_trend_modifier", team_name |-> team_name,
                   pitcher_hand |-> pitcher_hand, trend |-> t,
                   team_recent |-> mod_get_recent_team_row(
                       team_name, IF pitcher_hand = "L" THEN t.l21_lhp ELSE t.l21_rhp),
                   team_delta |-> mod_get_recent_team_row(
                       team_name, IF pitcher_hand = "L" THEN t.delta_lhp ELSE t.delta_rhp),
                   out |-> calculate_team_trend_modifier(team_name, pitcher_hand,
                                                         t.l21_lhp, t.l21_rhp,
                                                         t.delta_lhp, t.delta_rhp)]
    /\ UNCHANGED <<query, result, run, sim>>

BaseIps == {3 * One, 55000, 7 * One}

\* stats_logic.py: one call of scale_ip_mean
ScaleIpMean ==
    /\ call = CallIdle
    /\ \E base_ip \in BaseIps, opponent \in Opponents, hand \in Hands, park \in Parks,
          t \in LibWorlds :
          call' = [fn |-> "scale_ip_mean", base_ip |-> base_ip, opponent |-> opponent,
                   hand |-> hand, park |-> park, trend |-> t,
                   recent_data |-> stats_get_recent_team_row(
                       opponent, IF hand = "L" THEN t.l21_lhp ELSE t.l21_rhp),
                   delta_data |-> stats_get_recent_team_row(
                       opponent, IF hand = "L" THEN t.delta_lhp ELSE t.delta_rhp),
                   out |-> scale_ip_mean(base_ip, opponent, hand, park,
                                         t.l21_lhp, t.l21_rhp, t.delta_lhp, t.delta_rhp)]
    /\ UNCHANGED <<query, result, run, sim>>

\* Stuff+ indices, in whole points
StuffPlusValues == {20, 40, 90, 100, 101, 130, 180, 200}

\* a pitcher row with a Stuff+ cell and, unless Absent, a k_pct cell
StuffRow(stuff_plus, k_pct) ==
    IF k_pct = Absent
    THEN [columns |-> <<COL.StuffPlus>>, cells |-> <<stuff_plus * One>>]
    ELSE [columns |-> <<COL.StuffPlus, COL.k_pct>>, cells |-> <<stuff_plus * One, k_pct>>]

\* modifiers.py: calculate_stuff_modifier called on two rows that differ
\* only in Stuff+, with the same logs
CalculateStuffModifier ==
    /\ call = CallIdle
    /\ \E lo \in StuffPlusValues, hi \in StuffPlusValues, k_pct \in {Absent, 3000},
          n \in 0..MaxLogs, v \in LogVariants :
          /\ lo < hi
          /\ call' = [fn |-> "calculate_stuff_modifier", lo |-> lo, hi |-> hi,
                      k_pct |-> k_pct, logs |-> Logs(n, v),
                      out_lo |-> calculate_stuff_modifier(StuffRow(lo, k_pct), Logs(n, v)),
                      out_hi |-> calculate_stuff_modifier(StuffRow(hi, k_pct), Logs(n, v))]
    /\ UNCHANGED <<query, result, run, sim>>

\* park names a caller can pass: no string, the empty and a blank string, a
\* full name, a padded lower-case part of one name, a part of many names, and
\* a name of no park
ParkInputs ==
    Parks \cup {PyNone, PyStr(<<>>), PyStr(<<" ">>), PyStr(<<"P", "a", "r", "k">>),
                PyStr(<<"F", "e", "n", "w", "a", "y", "s">>)}

GetParkModifier ==
    /\ call = CallIdle
    /\ \E park_name \in ParkInputs :
          call' = [fn |-> "get_park_modifier", park_name |-> park_name,
                   out |-> get_park_modifier(park_name)]
    /\ UNCHANGED <<query, result, run, sim>>

\* the catcher behind the plate in the pitcher's game (two of the framing
\* table, one who is not in it) and the team code of the pitcher's cache
Catchers ==
    {<<"C", "a", "l", " ", "R", "a", "l", "e", "i", "g", "h">>,
     <<"K", "e", "i", "b", "e", "r", "t", " ", "R", "u", "i", "z">>,
     <<"A", "u", "s", "t", "i", "n", " ", "W", "e", "l", "l", "s">>}

CacheTeams == {S.NYY, S.BOS, <<"S", "E", "A">>, <<"U", "N", "K">>}

\* the first step of project_strikeouts on a pitcher cache: the framing
\* modifier it keeps for the combiner (models.py lines 117-123)
ProjectionFraming ==
    /\ call = CallIdle
    /\ \E catcher \in Catchers, team \in CacheTeams, hand \in Hands, n \in 0..MaxLogs :
          LET loaded(x) ==
                  [fn |-> "project_strikeouts.framing", catcher |-> catcher,
                   team |-> x.got.team, logs |-> Len(x.got.logs),
                   hand |-> x.got.hand, framing_mod |-> x.r.framing_mod]
          IN  call' = loaded(ps_load_cache(
                          [w |-> [cache |-> [exists |-> TRUE, logs |-> Logs(n, "varied"),
                                             hand |-> hand, team |-> team]]]))
    /\ UNCHANGED <<query, result, run, sim>>

\* the tables get_recent_team_row is called on: every trend file of
\* LibWorlds, a file without a team column and a file without any content
TeamTables ==
    UNION {{t.l21_lhp, t.l21_rhp, t.delta_lhp, t.delta_rhp} : t \in LibWorlds}
        \cup {[columns |-> <<COL.Kpct>>, rows |-> << <<2000>> >>],
              [columns |-> <<>>, rows |-> <<>>]}

\* one call of get_recent_team_row of modifiers.py or of stats_logic.py, with
\* a team name or None
GetRecentTeamRow ==
    /\ call = CallIdle
    /\ \E module \in {"modifiers", "stats_logic"},
          team_name \in {PyStr(o) : o \in Opponents} \cup {PyNone}, df \in TeamTables :
          LET in_try == IF module = "modifiers" THEN mod_table_in_try(team_name, df)
                        ELSE stats_table_in_try(team_name, df)
              str == IF team_name = PyNone THEN <<"N", "o", "n", "e">> ELSE team_name.s
              row(table) ==
                  IF module = "modifiers"
                  THEN (IF team_name = PyNone THEN None
                        ELSE mod_get_recent_team_row(team_name.s, table))
                  ELSE stats_get_recent_team_row(str, table)
              returned(after) ==
                  [fn |-> "get_recent_team_row", module |-> module,
                   team_name |-> team_name, df |-> df, in_try |-> in_try,
                   row |-> row(df), df_after |-> after, row_again |-> row(after)]
          IN  call' = returned(DropTempTeam(in_try))
    /\ UNCHANGED <<query, result, run, sim>>

\* lines as the props scraper reads them (n.5), and projected means around
\* them: exactly 10 percent above and below 5.5, one hundredth further out,
\* equal, far off, 0 and NaN
EdgeLines == {25000, 55000, 65000}

EdgeMeans == {60500, 49500, 60600, 49400, 55000, 27500, 8 * One, 0, NaN}

\* one call of StrikeoutOrchestrator._calculate_edge, with a prop that has a
\* line or none, and a projection or None
CalculateEdge ==
    /\ call = CallIdle
    /\ \E line \in EdgeLines \cup {Absent}, pitcher \in RunPitchers,
          projection \in {None} \cup {[mean |-> m] : m \in EdgeMeans} :
          LET prop == [pitcher |-> pitcher, team |-> S.NYY, line |-> line]
          IN  call' = [fn |-> "_calculate_edge", prop |-> prop, projection |-> projection,
                       out |-> _calculate_edge(prop, projection)]
    /\ UNCHANGED <<query, result, run, sim>>

LibNext ==
    \/ CalculateEwma
    \/ CalculateTeamTrendModifier
    \/ ScaleIpMean
    \/ CalculateStuffModifier
    \/ GetParkModifier
    \/ ProjectionFraming
    \/ GetRecentTeamRow
    \/ CalculateEdge

LibSpec == Init /\ [][LibNext]_vars

\* ------------------------------------------------------------------------
\* One process answering several queries: the process-wide objects are the
\* generator np.random and the match counters of batter_loader
\* ------------------------------------------------------------------------
SessionQueries ==
    {[[Plain EXCEPT !.opponent_team = o] EXCEPT !.cache = c] :
        o \in Opponents, c \in {NoCache, Plain.cache}}

StartProcess ==
    /\ call = CallIdle
    /\ \E seed \in Seeds :
          call' = [fn |-> "process", generator |-> seed, generator_at_start |-> seed,
                   match_stats |-> [total |-> 0, matched |-> 0], history |-> <<>>]
    /\ UNCHANGED <<query, result, run, sim>>

\* one call of project_strikeouts in the process: the simulator draws from
\* the generator as the previous queries left it; get_batter_stats, which
\* counts in match_stats, is not reached (preprocessor.py line 208 raises
\* before the call of line 210)
QueryInProcess ==
    /\ call.fn = "process"
    /\ Len(call.history) < MaxQueries
    /\ \E q \in SessionQueries :
          LET answered(r) ==
                  [call EXCEPT
                      !.generator =
                          IF r.sim_args = <<>> THEN @
                          ELSE GeneratorAfter(@, DefaultN,
                                   simulate_ks(r.sim_args[1], r.sim_args[2], r.sim_args[3],
                                               DefaultN, @)),
                      !.history = Append(@, [q |-> q, status |-> r.status,
                                             samples |-> r.samples,
                                             distribution |-> r.distribution])]
          IN  call' = answered(project_strikeouts(q.pitcher_name, q.opponent_team, q.park,
                                                  World(q), call.generator))
    /\ UNCHANGED <<query, result, run, sim>>

SessionNext == StartProcess \/ QueryInProcess

SessionSpec == Init /\ [][SessionNext]_vars

\* ------------------------------------------------------------------------
\* The pitcher cache of the scraper (mlbscraper.py): the files of the cache
\* directory, by path, under calls of save_pitcher_cache and
\* get_recent_ks_and_ip
\* ------------------------------------------------------------------------
\* cache/<name with _ for spaces, lower case>_2025.json
CachePath(pitcher_name) == lower(Replace(pitcher_name, " ", <<"_">>))

\* a file of the cache directory: written tells whether save_pitcher_cache
\* wrote it or whether it was found there
NoFile == [exists |-> FALSE, logs |-> <<>>, hand |-> "", team |-> <<>>, written |-> FALSE]

\* variant: save_pitcher_cache without the test for an empty log list
save_pitcher_cache_always(files, pitcher_name, handedness, logs, team) ==
    [files EXCEPT ![CachePath(pitcher_name)] =
        [exists |-> TRUE, logs |-> logs, hand |-> handedness, team |-> team,
         written |-> TRUE]]

\* save_pitcher_cache: the files after the call
save_pitcher_cache(files, pitcher_name, handedness, logs, team) ==
    IF logs = <<>> THEN files
    ELSE [files EXCEPT ![CachePath(pitcher_name)] =
             [exists |-> TRUE, logs |-> logs, hand |-> handedness, team |-> team,
              written |-> TRUE]]

\* get_recent_ks_and_ip of mlbscraper.py.  props_team is what get_player_info
\* finds in the props teams file, player_id whether an MLB id is found (the
\* interactive search included), fetched what get_pitcher_logs returns.
\* [files, how the call ended, deleted, the five values returned]
scraper_get_recent_ks_and_ip(files, pitcher_name, props_team, player_id, fetched) ==
    LET path == CachePath(pitcher_name)
        values(logs, hand) ==
            [ks |-> List([i \in DOMAIN logs |-> logs[i].strikeouts]),
             ip |-> List([i \in DOMAIN logs |-> logs[i].innings_pitched]),
             hand |-> hand, team |-> props_team, logs |-> logs]
        fetch(remaining, deleted) ==
            IF ~player_id
            THEN [files |-> remaining, how |-> "no_id", deleted |-> deleted,
                  ret |-> values(<<>>, "")]
            ELSE [files |-> IF fetched.logs # <<>>
                            THEN save_pitcher_cache(remaining, pitcher_name, fetched.hand,
                                                    fetched.logs, props_team)
                            ELSE remaining,
                  how |-> "fetched", deleted |-> deleted,
                  ret |-> values(fetched.logs, fetched.hand)]
    IN  IF props_team = S.UNK
        THEN [files |-> files, how |-> "unk", deleted |-> FALSE, ret |-> values(<<>>, "")]
        ELSE IF files[path].exists /\ files[path].logs # <<>>
        THEN [files |-> files, how |-> "cache", deleted |-> FALSE,
              ret |-> values(files[path].logs, files[path].hand)]
        ELSE IF files[path].exists
        THEN fetch([files EXCEPT ![path] = NoFile], TRUE)
        ELSE fetch(files, FALSE)

\* two spellings of one pitcher, which share a cache file, and another one
ScraperPitchers == {S.Cole, lower(S.Cole), S.Webb}

\* what a path of the cache directory holds before the first call: nothing,
\* a file with an empty log list, or a file with logs
FoundFiles ==
    {NoFile,
     [exists |-> TRUE, logs |-> <<>>, hand |-> "R", team |-> S.NYY, written |-> FALSE],
     [exists |-> TRUE, logs |-> Logs(1, "scraped"), hand |-> "", team |-> S.NYY,
      written |-> FALSE]}

\* what get_pitcher_logs returns: ([], None) or logs with or without a hand
FetchedLogs ==
    {[logs |-> <<>>, hand |-> ""],
     [logs |-> Logs(1, "scraped"), hand |-> "R"],
     [logs |-> Logs(2, "scraped"), hand |-> ""]}

StartScraper ==
    /\ call = CallIdle
    /\ \E files \in [{CachePath(p) : p \in ScraperPitchers} -> FoundFiles] :
          call' = [fn |-> "scraper", files |-> files, op |-> "start", before |-> files,
                   pitcher_name |-> <<>>, logs |-> <<>>, props_team |-> <<>>,
                   how |-> "", deleted |-> FALSE, ret |-> <<>>]
    /\ UNCHANGED <<query, result, run, sim>>

SavePitcherCache ==
    /\ call.fn = "scraper"
    /\ \E pitcher_name \in ScraperPitchers, fetched \in FetchedLogs :
          call' = [call EXCEPT
                      !.files = save_pitcher_cache(call.files, pitcher_name, fetched.hand,
                                                   fetched.logs, S.NYY),
                      !.op = "save_pitcher_cache", !.before = call.files,
                      !.pitcher_name = pitcher_name, !.logs = fetched.logs,
                      !.props_team = S.NYY, !.how = "", !.deleted = FALSE, !.ret = <<>>]
    /\ UNCHANGED <<query, result, run, sim>>

ScraperGetRecentKsAndIp ==
    /\ call.fn = "scraper"
    /\ \E pitcher_name \in ScraperPitchers, props_team \in {S.NYY, S.UNK},
          player_id \in BOOLEAN, fetched \in FetchedLogs :
          LET returned(x) ==
                  [call EXCEPT
                      !.files = x.files, !.op = "get_recent_ks_and_ip",
                      !.before = call.files, !.pitcher_name = pitcher_name,
                      !.logs = fetched.logs, !.props_team = props_team,
                      !.how = x.how, !.deleted = x.deleted, !.ret = x.ret]
          IN  call' = returned(scraper_get_recent_ks_and_ip(call.files, pitcher_name,
                                                            props_team, player_id, fetched))
    /\ UNCHANGED <<query, result, run, sim>>

ScraperNext == StartScraper \/ SavePitcherCache \/ ScraperGetRecentKsAndIp

ScraperSpec == Init /\ [][ScraperNext]_vars

\* ------------------------------------------------------------------------
\* Properties of the projection engine (checked under Spec)
\* ------------------------------------------------------------------------
Called == query # Idle

\* C1: project_strikeouts returns None and raises nothing when the pitcher's
\* log cache file does not exist, and likewise when the opponent has no
\* cached lineup; in both cases no total modifier is computed and no
\* simulation is run.
C1_MissingCacheGivesNone ==
    (Called /\ (~query.cache.exists \/ ~query.lineup.exists)) =>
        /\ result.status = "none"
        /\ result.total_mod = Absent
        /\ result.adjusted_mean = Absent
        /\ result.sim_args = <<>>
        /\ result.samples = <<>>

\* the pitcher's cache exists, the opponent's lineup file does not, and the
\* call has returned None
C1_NoLineupReached ==
    /\ Called
    /\ query.cache.exists
    /\ ~query.lineup.exists
    /\ result.status = "none"

\* C2 (as stated): the call returns None when the lineup holds no dict
\* entry, and for every lineup each raw entry becomes one batter or is
\* dropped: no entry makes the call raise.
C2_NoEntryMakesTheCallRaise ==
    (Called /\ query.cache.exists /\ query.lineup.exists) =>
        /\ (\A i \in DOMAIN query.lineup.lineup : ~query.lineup.lineup[i].isdict)
              => result.status = "none"
        /\ ~(result.status = "raise" /\ result.stage = "preprocess")
        /\ result.stage \notin {"no_cache", "no_lineup", "preprocess", "empty_lineup"}
              => Len(result.lineup)
                    = Cardinality({i \in DOMAIN query.lineup.lineup :
                                       query.lineup.lineup[i].isdict})

\* C3: once the pitcher table with a name column is searched, the call
\* returns None when no row's trimmed lower-case name equals the lower-case
\* pitcher name and no row's name has similarity >= 0.6 to it; otherwise it
\* goes on with the first row of the exact match, or else the first row
\* carrying the most similar name.
C3_PitcherLookup ==
    LET df == query.pitcher_file
        name_col == get_column_name(df, PitcherNameColumns)
        word == lower(query.pitcher_name)
        key(i) == lower(strip(df.rows[i][ColIndex(df.columns, name_col)]))
        m(i) == MatchCount(key(i), word, 0, Len(key(i)), 0, Len(word))
        t(i) == Len(key(i)) + Len(word)
        exact == {i \in DOMAIN df.rows : key(i) = word}
        fuzzy == {i \in DOMAIN df.rows : t(i) > 0 /\ 200 * m(i) >= 60 * t(i)}
        row == result.pitcher_row
    IN  result.stage \in {"no_pitcher", "stuff", "simulate", "done"} =>
            IF exact = {} /\ fuzzy = {}
            THEN result.status = "none" /\ result.stage = "no_pitcher"
            ELSE /\ result.stage # "no_pitcher"
                 /\ row \in DOMAIN df.rows
                 /\ \A j \in 1..(row - 1) : key(j) # key(row)
                 /\ IF exact # {} THEN row \in exact
                    ELSE /\ row \in fuzzy
                         /\ \A j \in fuzzy : m(j) * t(row) <= m(row) * t(j)

\* the pitcher is found by similarity only, in the second row of the table,
\* and the projection is returned
C3_FuzzyMatchReached ==
    /\ result.status = "ok"
    /\ result.pitcher_row = 2
    /\ \A i \in DOMAIN query.pitcher_file.rows :
          lower(strip(query.pitcher_file.rows[i][1])) # lower(query.pitcher_name)

\* C4 (as stated): with the pitcher's cache, a cached lineup with at least
\* one batter entry and the pitcher in the table, the call returns a
\* projection: never None, never an exception, whatever the opponent, the
\* park, the batters' names and the other files hold.
C4_GracefulDegradation ==
    LET df == query.pitcher_file
        names == {lower(strip(df.rows[i][1])) : i \in DOMAIN df.rows}
    IN  (/\ Called
         /\ query.cache.exists
         /\ query.lineup.exists
         /\ \E i \in DOMAIN query.lineup.lineup : query.lineup.lineup[i].isdict
         /\ df.columns = PitcherColumns
         /\ lower(query.pitcher_name) \in names)
        => result.status = "ok"

\* C6, for modifiers that are numbers: whatever the five weighted modifiers,
\* the weights, the stuff modifier and the framing modifier are, once none
\* of them is NaN the total modifier is the product
\* (weighted deviation sum) * stuff * framing clamped last to [0.85, 1.15],
\* and the adjusted mean lies between 0.85 and 1.15 times the base.
C6_TotalModifierClamped ==
    LET r == result
        dev(x, w) == Mul(x - One, w)
        sum == One + dev(r.matchup_mod, r.weights[1]) + dev(r.platoon_mod, r.weights[2])
                   + dev(r.park_mod, r.weights[3]) + dev(r.team_trend_mod, r.weights[4])
                   + dev(r.batter_vuln_mod, r.weights[5])
        raw == Mul(Mul(sum, r.stuff_mod), r.framing_mod)
    IN  (/\ r.total_mod # Absent
         /\ ~IsNaN(r.team_trend_mod)
         /\ ~IsNaN(r.stuff_mod))
        => /\ r.total_mod = IF raw < 8500 THEN 8500 ELSE IF raw > 11500 THEN 11500 ELSE raw
           /\ 8500 <= r.total_mod
           /\ r.total_mod <= 11500
           /\ r.adjusted_mean = Mul(r.base_ks, r.total_mod)
           /\ Mul(r.base_ks, 8500) <= r.adjusted_mean
           /\ r.adjusted_mean <= Mul(r.base_ks, 11500)

\* a returned projection whose unclamped product is above 1.15
C6_ClampReached ==
    /\ result.status = "ok"
    /\ ~IsNaN(result.stuff_mod)
    /\ ~IsNaN(result.combined)
    /\ Mul(Mul(result.combined, result.stuff_mod), result.framing_mod) > 11500
    /\ result.total_mod = 11500

\* C6 (as stated): in every returned projection the total modifier lies in
\* [0.85, 1.15] and the adjusted mean between 0.85 and 1.15 times the base.
C6_TotalModifierAlwaysInRange ==
    result.status = "ok" =>
        /\ Le(8500, result.total_mod)
        /\ Le(result.total_mod, 11500)
        /\ Le(Mul(result.base_ks, 8500), result.adjusted_mean)
        /\ Le(result.adjusted_mean, Mul(result.base_ks, 11500))

\* C7 (as stated): every modifier the combiner receives is a number in its
\* declared range: matchup, team trend and batter vulnerability in
\* [0.85, 1.15], stuff in [0.85, 1.20], framing in [0.95, 1.05], platoon in
\* [0.93, 1.07], park a value of the park table or 1.0.
C7_ModifiersInRange ==
    LET r == result
        within(x, lo, hi) == Le(lo, x) /\ Le(x, hi)
    IN  r.combined # Absent =>
            /\ within(r.matchup_mod, 8500, 11500)
            /\ within(r.team_trend_mod, 8500, 11500)
            /\ within(r.batter_vuln_mod, 8500, 11500)
            /\ within(r.stuff_mod, 8500, 12000)
            /\ within(r.framing_mod, 9500, 10500)
            /\ within(r.platoon_mod, 9300, 10700)
            /\ \/ r.park_mod = One
               \/ \E i \in DOMAIN PARK_FACTORS : PARK_FACTORS[i].mod = r.park_mod

\* C9 (as stated): the simulator is called with (adjusted mean, baseline
\* innings, scaled innings), the baseline innings being the EWMA of the
\* innings-pitched logs (5.0 without logs).
C9_SimulatorGetsBaselineInnings ==
    result.sim_args # <<>> =>
        result.sim_args = <<result.adjusted_mean, result.base_ip, result.scaled_ip>>

C8_ZerosWhenNotPositive ==
    sim.pc = "returned" =>
        LET args == <<sim.adjusted_mean, sim.base_ip, sim.scaled_ip>>
        IN  /\ (\E i \in 1..3 : Le(args[i], 0)) =>
                  /\ sim.out.exc = ""
                  /\ sim.out.branch = "zeros"
                  /\ Len(sim.out.samples) = sim.n
                  /\ \A t \in 1..sim.n : sim.out.samples[t] = 0
                  /\ sim.out.trials = <<>>
            /\ (\A i \in 1..3 : Gt(args[i], 0)) =>
                  /\ sim.out.branch = "simulate"
                  /\ Len(sim.out.samples) = sim.n
                  /\ Len(sim.out.trials) = sim.n

\* a call with a positive mean and positive scaled innings but zero baseline
\* innings has returned MaxN zeros
C8_ZeroBaselineReached ==
    /\ sim.pc = "returned"
    /\ Gt(sim.adjusted_mean, 0)
    /\ sim.base_ip = 0
    /\ Gt(sim.scaled_ip, 0)
    /\ sim.n = MaxN
    /\ sim.out.samples = [t \in 1..MaxN |-> 0]

\* ------------------------------------------------------------------------
\* Properties of the batch run (checked under RunSpec)
\* ------------------------------------------------------------------------
\* C5: each pass of the loop moves to the next prop and only ever appends to
\* the collected projections, appending nothing for a prop whose projection
\* is None or raised; while the loop runs the props before position i are
\* exactly those that had their pass, and the run ends only after every
\* prop had its pass.
C5_BatchContinues ==
    /\ [][(run.pc = "props" /\ run'.pc = "props") =>
             /\ run'.i = run.i + 1
             /\ run'.props = run.props
             /\ Len(run'.log) = Len(run.log) + 1
             /\ Len(run'.projections) >= Len(run.projections)
             /\ SubSeq(run'.projections, 1, Len(run.projections)) = run.projections
             /\ run'.log[Len(run'.log)] \in {"none", "raise"}
                   => run'.projections = run.projections]_vars
    /\ [](run.pc = "done" =>
             /\ run.i = Len(run.props) + 1
             /\ Len(run.log) = Len(run.props)
             /\ Len(run.projections)
                   = Cardinality({k \in DOMAIN run.log : run.log[k] = "collected"}))
    /\ [](run.pc = "props" =>
             /\ run.i <= Len(run.props) + 1
             /\ Len(run.log) = run.i - 1)

\* a finished run of three props: the second raised, and the first and the
\* third were collected
C5_SkippedAndContinued ==
    /\ run.pc = "done"
    /\ run.log = <<"collected", "raise", "collected">>
    /\ Len(run.projections) = 2

\* ------------------------------------------------------------------------
\* Properties of the library functions (checked under LibSpec)
\* ------------------------------------------------------------------------
SeqMin(values) == CHOOSE v \in {values[j] : j \in DOMAIN values} :
                      \A j \in DOMAIN values : v <= values[j]

SeqMax(values) == CHOOSE v \in {values[j] : j \in DOMAIN values} :
                      \A j \in DOMAIN values : v >= values[j]

\* C11: calculate_ewma returns 5.0 for the empty sequence and x for every
\* one-element sequence [x], whatever alpha is.
C11_EmptyAndSingle ==
    call.fn = "calculate_ewma" =>
        /\ call.values = <<>> => call.out = 5 * One
        /\ Len(call.values) = 1 => call.out = call.values[1]

C11_SingleValueReached ==
    /\ call.fn = "calculate_ewma"
    /\ call.alpha = 1000
    /\ call.values = <<7 * One>>
    /\ call.out = 7 * One

\* C12: for every non-empty sequence the weights calculate_ewma applies are
\* positive and sum to 1, for alpha > 0 they strictly increase from the
\* oldest to the most recent value, and the result lies between the least
\* and the greatest value.
C12_WeightsAndRange ==
    (call.fn = "calculate_ewma" /\ call.values # <<>>) =>
        LET n == Len(call.values)
        IN  /\ \A j \in 1..n : call.weights.num[j] > 0
            /\ call.weights.den > 0
            /\ SumSeq(call.weights.num) = call.weights.den
            /\ call.alpha > 0 =>
                   \A j \in 1..(n - 1) : call.weights.num[j] < call.weights.num[j + 1]
            /\ SeqMin(call.values) <= call.out
            /\ call.out <= SeqMax(call.values)

C12_MixedValuesReached ==
    /\ call.fn = "calculate_ewma"
    /\ call.alpha = DefaultAlpha
    /\ call.values = <<7 * One, 0, One>>
    /\ call.out > 0
    /\ call.out < 7 * One

ClampedBaseIp(base_ip) ==
    IF base_ip < 4 * One THEN 4 * One ELSE IF base_ip > 65000 THEN 65000 ELSE base_ip

\* C14 (as stated): every value scale_ip_mean returns is base_ip times a
\* factor in [0.8, 1.2] or, on the failure path, clamp(base_ip, 4.0, 6.5),
\* whatever the team rows hold (a wRC+ delta of -100 or less included).
C14_ScaledOrClamped ==
    call.fn = "scale_ip_mean" =>
        \/ /\ call.out.path = "normal"
           /\ ~IsNaN(call.out.value)
           /\ Mul(call.base_ip, 8000) <= call.out.value
           /\ call.out.value <= Mul(call.base_ip, 12000)
        \/ /\ call.out.path = "fallback"
           /\ call.out.value = ClampedBaseIp(call.base_ip)

\* C15 (as stated): when the opponent has no row in the recent or in the
\* delta trend table of the pitcher's hand, scale_ip_mean returns
\* clamp(base_ip, 4.0, 6.5) from its failure path.
C15_FallbackOnMissingRow ==
    (/\ call.fn = "scale_ip_mean"
     /\ call.recent_data = None \/ call.delta_data = None) =>
        /\ call.out.path = "fallback"
        /\ call.out.value = ClampedBaseIp(call.base_ip)

\* C16: of two pitcher rows that differ only in Stuff+, with the same logs,
\* the row with the higher Stuff+ gets a stuff modifier at least as large
\* as the other's, and the two are equal only when both sit on a clamp
\* bound (0.85 or 1.20).
C16_MonotoneInStuffPlus ==
    (/\ call.fn = "calculate_stuff_modifier"
     /\ call.out_lo.exc = ""
     /\ call.out_hi.exc = "") =>
        /\ ~IsNaN(call.out_lo.value)
        /\ call.out_hi.value >= call.out_lo.value
        /\ call.out_hi.value = call.out_lo.value => call.out_lo.value \in {8500, 12000}

C16_BelowAverageStuffReached ==
    /\ call.fn = "calculate_stuff_modifier"
    /\ call.lo = 40
    /\ call.hi = 90
    /\ call.logs # <<>>
    /\ call.out_lo.exc = ""
    /\ call.out_hi.value > call.out_lo.value
    /\ call.out_hi.value < One

\* ------------------------------------------------------------------------
\* The batters of a projection (checked under Spec)
\* ------------------------------------------------------------------------
\* the lineup has reached calculate_batter_vulnerability_mod
VulnerabilityComputed == Called /\ result.batter_vuln_mod # Absent

\* the batter is found in the batter reference table
InTable(batter) == get_batter_stats(batter.name, "Breaking").matched

\* the modifier of one batter from the league-average constants alone
LeagueOnlyMod(pitch_type, pitcher_hand, batter_hand) ==
    BatterMod([hand |-> batter_hand,
               k_percent |-> LEAGUE_AVG_STATS("Breaking").k_percent,
               woba |-> LEAGUE_AVG_STATS("Breaking").woba,
               whiff_percent |-> LEAGUE_AVG_STATS("Breaking").whiff_percent,
               put_away |-> LEAGUE_AVG_STATS("Breaking").put_away],
              league_avgs(pitch_type), pitcher_hand, One)

\* C17: for a lineup whose batters are all absent from the batter reference
\* table, the batter vulnerability modifier is the mean of values computed
\* from the league-average constants, the hands and the pitch type alone,
\* and no batter is counted as matched (match rate 0%).
C17_AbsentBattersUseLeagueAverages ==
    (/\ VulnerabilityComputed
     /\ \A i \in DOMAIN result.lineup : ~InTable(result.lineup[i])) =>
        /\ result.matched = 0
        /\ result.batter_vuln_mod =
               SumSeq([i \in DOMAIN result.lineup |->
                          LeagueOnlyMod(result.putaway_pitch, query.cache.hand,
                                        result.lineup[i].hand)])
                   \div Len(result.lineup)

C17_AbsentLineupReached ==
    /\ VulnerabilityComputed
    /\ result.putaway_pitch = "Offspeed"
    /\ Len(result.lineup) = 2
    /\ \A i \in DOMAIN result.lineup : ~InTable(result.lineup[i])
    /\ result.batter_vuln_mod # One
    /\ result.matched = 0

\* C20 (as stated): the matched flag propagates end to end: a lineup batter
\* found in the batter reference table reaches
\* calculate_batter_vulnerability_mod with matched = true, one not found
\* with matched = false, and the number of batters counted as matched is
\* the number of lineup batters found.
C20_MatchedFlagPropagates ==
    VulnerabilityComputed =>
        /\ \A i \in DOMAIN result.lineup :
               result.lineup[i].matched = InTable(result.lineup[i])
        /\ result.matched =
               Cardinality({i \in DOMAIN result.lineup : InTable(result.lineup[i])})

\* ------------------------------------------------------------------------
\* The weights and the innings of a projection (checked under Spec)
\* ------------------------------------------------------------------------
\* the distinct pitches of the projected pitcher's row
PitchMix ==
    LET row == [columns |-> query.pitcher_file.columns,
                cells |-> query.pitcher_file.rows[result.pitcher_row]]
    IN  {DictGet(row, COL.PutawayL, "SL"), DictGet(row, COL.PutawayR, "SL")}

\* C18 (as stated): the weights of a projection are the base vector
\* [0.30, 0.25, 0.25, 0.20, 0.20] unless the pitcher's pitch mix is a single
\* distinct pitch, in which case they are [0.25, 0.25, 0.20, 0.20, 0.30]; a
\* pitcher with two or more distinct pitches is projected with the base
\* vector.
C18_WeightsFollowPitchMix ==
    (Called /\ result.weights # <<>>) =>
        result.weights = IF Cardinality(PitchMix) = 1
                         THEN <<2500, 2500, 2000, 2000, 3000>>
                         ELSE <<3000, 2500, 2500, 2000, 2000>>

\* C19 (as stated): the innings figure of a returned projection is the
\* scaled innings estimate, the value scale_ip_mean produced and the
\* simulation is centred on.
C19_InningsFigureIsScaled ==
    (Called /\ result.status = "ok") => result.ip_ewma = Round2(result.scaled_ip)

\* ------------------------------------------------------------------------
\* Properties of a process answering several queries (checked under
\* SessionSpec)
\* ------------------------------------------------------------------------
\* C21 (as stated): after a projection query returns, every process-wide
\* object equals its value before the call, so the result of a query does
\* not depend on the queries that ran before it.
C21_NoStateCrossesQueries ==
    call.fn = "process" =>
        /\ call.generator = call.generator_at_start
        /\ call.match_stats = [total |-> 0, matched |-> 0]
        /\ \A i \in DOMAIN call.history : \A j \in DOMAIN call.history :
               call.history[i].q = call.history[j].q =>
                   call.history[i] = call.history[j]

\* what C22 says of one trial: innings within [3.0, 8.0], floor(innings)
\* draws plus one more iff the remainder is positive, value their sum
TrialAsDescribed(trial) ==
    /\ trial.ip >= 3 * One /\ trial.ip <= 8 * One
    /\ trial.full = trial.ip \div One /\ trial.full \in 3..8
    /\ Len(trial.draws) = trial.full + (IF trial.ip % One > 0 THEN 1 ELSE 0)
    /\ trial.ks = SumSeq(trial.draws)

\* C22: a call with three positive arguments (the simulation branch) returns
\* exactly n non-negative integers, one per trial, and every trial clamps its
\* innings to [3.0, 8.0], makes floor(innings) Poisson draws plus one for a
\* positive remainder, and is valued at the sum of its draws.
C22_TrialsOnSimulationBranch ==
    (/\ sim.pc = "returned"
     /\ Gt(sim.adjusted_mean, 0) /\ Gt(sim.base_ip, 0) /\ Gt(sim.scaled_ip, 0)) =>
        /\ sim.out.exc = ""
        /\ sim.out.branch = "simulate"
        /\ Len(sim.out.samples) = sim.n
        /\ Len(sim.out.trials) = sim.n
        /\ \A t \in 1..sim.n :
               /\ TrialAsDescribed(sim.out.trials[t])
               /\ sim.out.samples[t] = sim.out.trials[t].ks
               /\ sim.out.samples[t] \in Nat

\* a simulation of MaxN trials has returned with one trial of whole innings
\* and one with a positive remainder, and a positive sample
C22_WholeAndPartialInningsReached ==
    /\ sim.pc = "returned"
    /\ sim.out.branch = "simulate"
    /\ sim.n = MaxN
    /\ Len(sim.out.trials) = MaxN
    /\ \E t \in 1..MaxN : sim.out.trials[t].frac = 0
    /\ \E t \in 1..MaxN : sim.out.trials[t].frac > 0 /\ sim.out.samples[t] > 0

\* ------------------------------------------------------------------------
\* Further properties of the library functions (checked under LibSpec)
\* ------------------------------------------------------------------------
\* C23 (as stated): when both rows of the opponent exist, whatever their K%
\* cells hold (missing or NaN included), calculate_team_trend_modifier
\* returns a number within [0.85, 1.15], never NaN.
C23_DefinedWhenKpctMissing ==
    (/\ call.fn = "calculate_team_trend_modifier"
     /\ call.team_recent # None
     /\ call.team_delta # None) =>
        /\ ~IsNaN(call.out.value)
        /\ call.out.value >= 8500
        /\ call.out.value <= 11500

\* C24 (as stated): calculate_stuff_modifier never raises and returns a value
\* in [0.85, 1.20] for every pitcher row and every log list, logs in the
\* form the scraper caches included.
C24_StuffModifierTotal ==
    call.fn = "calculate_stuff_modifier" =>
        \A out \in {call.out_lo, call.out_hi} :
            /\ out.exc = ""
            /\ Le(8500, out.value)
            /\ Le(out.value, 12000)

\* C25 (as stated): get_park_modifier returns 1.0 for a non-string and for a
\* string contained (trimmed, without case) in no official park name, the
\* table value of the first official name containing it otherwise, and 1.0
\* for a string that names no park, the empty string included.
C25_ParkModifierLookup ==
    call.fn = "get_park_modifier" =>
        LET normalized == lower(strip(call.park_name.s))
            hits == {i \in DOMAIN PARK_FACTORS :
                        Contains(lower(PARK_FACTORS[i].name), normalized)}
        IN  /\ call.park_name.type # "str" => call.out = One
            /\ (call.park_name.type = "str" /\ hits = {}) => call.out = One
            /\ (call.park_name.type = "str" /\ hits # {}) =>
                   \E i \in hits : /\ \A j \in hits : i <= j
                                   /\ call.out = PARK_FACTORS[i].mod
            /\ (call.park_name.type = "str" /\ normalized = <<>>) => call.out = One

\* C26 (as stated): the framing modifier of a projection is
\* 1 + (runs x -3.94 / 100) clamped to [0.95, 1.05] for the framing runs the
\* table holds for the catcher of the game, and 1.0 only for a catcher the
\* table does not hold.
C26_FramingOfTheCatcher ==
    call.fn = "project_strikeouts.framing" =>
        LET runs == FramingRuns(call.catcher)
            expected == np_clip(One + (0 - runs * 394) \div 100, 9500, 10500)
        IN  call.framing_mod = expected

\* C27: get_recent_team_row of either module leaves the table it was given
\* with the columns and rows it had, on every exit path, so a second lookup
\* on the same table returns what the first returned.
C27_TableUnchanged ==
    call.fn = "get_recent_team_row" =>
        /\ call.df_after = call.df
        /\ call.row_again = call.row

\* a lookup that added the temporary column and returned a row found by
\* fuzzy match has left the table as it was
C27_FuzzyLookupReached ==
    /\ call.fn = "get_recent_team_row"
    /\ call.team_name = PyStr(S.BO)
    /\ call.in_try # call.df
    /\ call.row # None
    /\ call.df_after = call.df

\* ------------------------------------------------------------------------
\* Further properties of the batch run (checked under RunSpec)
\* ------------------------------------------------------------------------
\* C28: in a run, project_strikeouts is called for a prop exactly when the
\* pitcher's cache file exists with logs, a hand and a team other than "UNK"
\* and the prop's team has a scheduled opponent; every other prop is skipped
\* without a call, and the output list holds, in order, one entry for each
\* prop whose call returned a projection and whose edge was computed, and
\* nothing else.
C28_ProjectedOnlyWhenValidated ==
    run.pc \in {"props", "done"} =>
        LET passed(prop) ==
                /\ DiskCache(prop.pitcher).exists
                /\ DiskCache(prop.pitcher).logs # <<>>
                /\ DiskCache(prop.pitcher).hand # ""
                /\ DiskCache(prop.pitcher).team # S.UNK
                /\ \E g \in DOMAIN team_schedule :
                       /\ team_schedule[g].key = prop.team
                       /\ team_schedule[g].value \notin {S.Unknown_opp, S.UNK}
            called(k) == run.log[k] \notin {"invalid", "no_opponent"}
            collected == SelectSeq(List([k \in DOMAIN run.log |-> k]),
                                   LAMBDA k : run.log[k] = "collected")
        IN  /\ \A k \in DOMAIN run.log : called(k) <=> passed(run.props[k])
            /\ Len(run.projections) = Len(collected)
            /\ \A j \in DOMAIN run.projections :
                   /\ called(collected[j])
                   /\ run.projections[j].pitcher = run.props[collected[j]].pitcher
                   /\ run.projections[j].team = run.props[collected[j]].team
                   /\ run.projections[j].line = run.props[collected[j]].line
                   /\ run.projections[j].recommendation \in {"OVER", "UNDER", "PASS"}

\* a finished run of MaxProps props in which a prop of a pitcher without a
\* hand in the cache was skipped and a prop of a validated pitcher collected
C28_SkippedAndProjectedReached ==
    /\ run.pc = "done"
    /\ Len(run.props) = MaxProps
    /\ \E k \in DOMAIN run.log :
           run.props[k].pitcher = S.Colixx /\ run.log[k] = "invalid"
    /\ \E k \in DOMAIN run.log : run.log[k] = "collected"
    /\ Len(run.projections) >= 1

\* ------------------------------------------------------------------------
\* Properties of the edge calculation (checked under LibSpec)
\* ------------------------------------------------------------------------
\* C29: with a projection, _calculate_edge recommends OVER exactly when the
\* projected mean is more than 10 percent of the line above the line, UNDER
\* exactly when it is more than 10 percent below, and PASS otherwise, at
\* exactly 10 percent either way included; without a projection it returns
\* SKIP with edge 0 and projected_ks 0, also for a prop that has no line.
C29_EdgeRecommendation ==
    call.fn = "_calculate_edge" =>
        LET line == call.prop.line
            mean == call.projection.mean
        IN  /\ call.projection = None =>
                   call.out = [exc |-> "", projected_ks |-> 0, edge |-> 0,
                               recommendation |-> "SKIP"]
            /\ (call.projection # None /\ line # Absent) =>
                   /\ call.out.exc = ""
                   /\ call.out.recommendation = "OVER"
                          <=> (~IsNaN(mean) /\ (mean - line) * 100 > 10 * line)
                   /\ call.out.recommendation = "UNDER"
                          <=> (~IsNaN(mean) /\ (mean - line) * 100 < 0 - 10 * line)
                   /\ call.out.recommendation \in {"OVER", "UNDER", "PASS"}

\* a call with a mean exactly 10 percent above the line has returned PASS
\* with an edge of 10.0
C29_ExactlyTenPercentReached ==
    /\ call.fn = "_calculate_edge"
    /\ call.projection # None
    /\ call.prop.line = 55000
    /\ call.projection.mean = 60500
    /\ call.out.edge = 10 * One
    /\ call.out.recommendation = "PASS"

\* ------------------------------------------------------------------------
\* Properties of the scraper's cache (checked under ScraperSpec)
\* ------------------------------------------------------------------------
\* C30: after any sequence of save_pitcher_cache and get_recent_ks_and_ip
\* calls no cache file written by the scraper holds an empty log list:
\* save_pitcher_cache with empty logs leaves the files as they were,
\* get_recent_ks_and_ip returns cached data only from a file with logs, and
\* a file found with empty logs is gone, or replaced by one with logs, when
\* the call that found it goes on to fetch.
C30_NoEmptyCacheFile ==
    call.fn = "scraper" =>
        LET path == CachePath(call.pitcher_name)
        IN  /\ \A f \in DOMAIN call.files :
                   (call.files[f].exists /\ call.files[f].written)
                       => call.files[f].logs # <<>>
            /\ (call.op = "save_pitcher_cache" /\ call.logs = <<>>)
                   => call.files = call.before
            /\ (call.op = "get_recent_ks_and_ip" /\ call.how = "cache") =>
                   /\ call.before[path].exists
                   /\ call.before[path].logs # <<>>
                   /\ call.ret.logs = call.before[path].logs
                   /\ call.files = call.before
            /\ (/\ call.op = "get_recent_ks_and_ip"
                 /\ call.how \in {"no_id", "fetched"}
                 /\ call.before[path].exists
                 /\ call.before[path].logs = <<>>) =>
                   /\ call.deleted
                   /\ ~call.files[path].exists \/ call.files[path].logs # <<>>

\* a lookup that found a file with an empty log list, deleted it and fetched
\* nothing has returned, and the file is gone
C30_EmptyFileDeletedReached ==
    /\ call.fn = "scraper"
    /\ call.op = "get_recent_ks_and_ip"
    /\ call.how = "fetched"
    /\ call.logs = <<>>
    /\ call.before[CachePath(call.pitcher_name)].exists
    /\ call.deleted
    /\ ~call.files[CachePath(call.pitcher_name)].exists

====
